---- MODULE Spec2Model ----
(***************************************************************************)
(* EtherNet/IP server simulator: the encapsulation codec, the stream       *)
(* reassembler of TCPServer.handleConnection, the encapsulation handlers,  *)
(* the session registry and the tag store, modelled at byte level.         *)
(*                                                                         *)
(* Buffers are sequences of bytes (0..255).  Source offsets are 0-based,   *)
(* TLA+ sequences 1-based: byte k of the source is b[k + 1] here.          *)
(***************************************************************************)
EXTENDS Integers, Sequences, FiniteSets, TLC

(***************************************************************************)
(* Bounds of the model.                                                    *)
(***************************************************************************)
NumConns == 2
MaxFrames == 3
MaxTicks == 1
ChunkCut == 10
NumTags == 2

(***************************************************************************)
(* Program constants.                                                      *)
(***************************************************************************)
HeaderLength == 24
MaxPacketLength == 65535
IdleTimeoutMs == 300000
SweepIntervalMs == 60000

CMD_NOP == 0
CMD_LIST_SERVICES == 4
CMD_LIST_IDENTITY == 99
CMD_REGISTER_SESSION == 101
CMD_UNREGISTER_SESSION == 102
CMD_SEND_RR_DATA == 111
CMD_SEND_UNIT_DATA == 112

STATUS_SUCCESS == 0
STATUS_INVALID_COMMAND == 1
STATUS_INVALID_SESSION_HANDLE == 101
STATUS_INVALID_LENGTH == 105
STATUS_UNSUPPORTED_PROTOCOL == 106

CIP_SUCCESS == 0
CIP_PATH_SEGMENT_ERROR == 4
CIP_PATH_DESTINATION_UNKNOWN == 5
CIP_SERVICE_NOT_SUPPORTED == 8
CIP_NOT_ENOUGH_DATA == 19
CIP_ATTRIBUTE_NOT_SUPPORTED == 20
CIP_OBJECT_DOES_NOT_EXIST == 22
CIP_GENERAL_ERROR == 30

(***************************************************************************)
(* Buffer primitives (Node Buffer).                                        *)
(***************************************************************************)
Min(a, b) == IF a < b THEN a ELSE b

Max(a, b) == IF a > b THEN a ELSE b

\* Buffer.alloc(n): n zero bytes
Zeros(n) == [i \in 1..n |-> 0]

\* buf.slice(start, end) with 0-based start, exclusive end, clamped to the buffer
Slice(b, start, end) ==
  LET s == Min(start, Len(b))
      e == Min(Max(end, s), Len(b))
  IN  [i \in 1..(e - s) |-> b[s + i]]

\* buf.slice(start)
SliceFrom(b, start) == Slice(b, start, Len(b))

writeUInt16BE(v) == <<v \div 256, v % 256>>

writeUInt16LE(v) == <<v % 256, v \div 256>>

\* Integers here are 32 bits wide and signed, so a 32-bit unsigned value v
\* of 2^31 or more is held as v - 2^32: the bytes are those of v, and two
\* values are equal exactly when their bytes are.
HighByte(b) == IF b >= 128 THEN b - 256 ELSE b

writeUInt32BE(v) ==
  <<(v \div 16777216) % 256, (v \div 65536) % 256, (v \div 256) % 256, v % 256>>

writeUInt32LE(v) ==
  <<v % 256, (v \div 256) % 256, (v \div 65536) % 256, (v \div 16777216) % 256>>

\* reads at a 0-based offset; the caller guarantees the bytes are present
readUInt16BE(b, off) == b[off + 1] * 256 + b[off + 2]

readUInt16LE(b, off) == b[off + 1] + b[off + 2] * 256

readUInt32BE(b, off) ==
  HighByte(b[off + 1]) * 16777216 + b[off + 2] * 65536 + b[off + 3] * 256 + b[off + 4]

readUInt32LE(b, off) ==
  b[off + 1] + b[off + 2] * 256 + b[off + 3] * 65536 + HighByte(b[off + 4]) * 16777216

(***************************************************************************)
(* EncapsulationPacket.                                                    *)
(***************************************************************************)
fromBuffer(b) ==
  [command       |-> readUInt16BE(b, 0),
   length        |-> readUInt16BE(b, 2),
   sessionHandle |-> readUInt32BE(b, 4),
   status        |-> readUInt32BE(b, 8),
   senderContext |-> Slice(b, 12, 20),
   options       |-> readUInt32BE(b, 20),
   data          |-> SliceFrom(b, 24)]

fromBufferLE(b) ==
  [command       |-> readUInt16LE(b, 0),
   length        |-> readUInt16LE(b, 2),
   sessionHandle |-> readUInt32LE(b, 4),
   status        |-> readUInt32LE(b, 8),
   senderContext |-> Slice(b, 12, 20),
   options       |-> readUInt32LE(b, 20),
   data          |-> SliceFrom(b, 24)]

\* toBuffer writing the size of the whole frame in the length field
toBufferTotalLength(p) ==
  writeUInt16BE(p.command) \o writeUInt16BE(24 + Len(p.data))
    \o writeUInt32BE(p.sessionHandle) \o writeUInt32BE(p.status)
    \o p.senderContext \o writeUInt32BE(p.options) \o p.data

toBuffer(p) ==
  writeUInt16BE(p.command) \o writeUInt16BE(Len(p.data))
    \o writeUInt32BE(p.sessionHandle) \o writeUInt32BE(p.status)
    \o p.senderContext \o writeUInt32BE(p.options) \o p.data

toBufferLE(p, data) ==
  writeUInt16LE(p.command) \o writeUInt16LE(Len(data))
    \o writeUInt32LE(p.sessionHandle) \o writeUInt32LE(p.status)
    \o p.senderContext \o writeUInt32LE(p.options) \o data

\* createResponse with a fresh sender context instead of the request's
createResponseFreshContext(p, status, data) ==
  [command       |-> p.command,
   length        |-> Len(data),
   sessionHandle |-> p.sessionHandle,
   status        |-> status,
   senderContext |-> Zeros(8),
   options       |-> 0,
   data          |-> data]

createResponse(p, status, data) ==
  [command       |-> p.command,
   length        |-> Len(data),
   sessionHandle |-> p.sessionHandle,
   status        |-> status,
   senderContext |-> p.senderContext,
   options       |-> 0,
   data          |-> data]

\* the recurring  isLittleEndian ? toBufferLE(response, data) : response.toBuffer()
\* a response always encoded big-endian
EncodeResponseBigEndian(isLittleEndian, response, data) == toBuffer(response)

EncodeResponse(isLittleEndian, response, data) ==
  IF isLittleEndian THEN toBufferLE(response, data) ELSE toBuffer(response)

(***************************************************************************)
(* SessionManager.  sessions is a function from the live handles to        *)
(* [createdAt, lastActivity].                                              *)
(***************************************************************************)
\* a check that accepts every handle above 0
hasPositiveHandle(sessions, handle) == handle >= 1

\* a registry that honours no handle
hasNoSession(sessions, handle) == FALSE

hasSession(sessions, handle) == handle \in DOMAIN sessions

\* nextSessionHandle++
NextHandleAfter(next) == next + 1

createSession(sessions, next, now) ==
  [handle   |-> next,
   next     |-> NextHandleAfter(next),
   sessions |-> [h \in (DOMAIN sessions) \cup {next} |->
                   IF h = next
                   THEN [createdAt |-> now, lastActivity |-> now]
                   ELSE sessions[h]]]

updateActivity(sessions, handle, now) ==
  IF handle \in DOMAIN sessions
  THEN [sessions EXCEPT ![handle].lastActivity = now]
  ELSE sessions

\* removeSession that forgets to delete
removeSessionKeeps(sessions, handle) == sessions

removeSession(sessions, handle) ==
  [h \in (DOMAIN sessions) \ {handle} |-> sessions[h]]

\* a sweep that also removes a session idle for exactly the timeout
cleanupInactiveAtTimeout(sessions, timeoutMs, now) ==
  [h \in {k \in DOMAIN sessions : ~(now - sessions[k].lastActivity >= timeoutMs)}
     |-> sessions[h]]

cleanupInactive(sessions, timeoutMs, now) ==
  [h \in {k \in DOMAIN sessions : ~(now - sessions[k].lastActivity > timeoutMs)}
     |-> sessions[h]]

\* a count that sees only the session of the request
ownSessionLength(sessions) == 1

getAllSessionsLength(sessions) == Cardinality(DOMAIN sessions)

(***************************************************************************)
(* Device configuration (constructor defaults of TCPServer).               *)
(***************************************************************************)
vendorId == 0

deviceType == 0

productCode == 0

\* 'EtherNet/IP Simulator'
productName ==
  <<69, 116, 104, 101, 114, 78, 101, 116, 47, 73, 80, 32,
    83, 105, 109, 117, 108, 97, 116, 111, 114>>

(***************************************************************************)
(* TagManager.  Tag i (1-based) has the i-th generated name and the        *)
(* address 'Tag_i'; tags is the function from 1..NumTags to the value.     *)
(***************************************************************************)
\* Math.floor(Math.random() * 2000000) - 1000000 ranges over -1000000..999999;
\* the model draws from the two ends of the range
TagValues == {-1000000, 999999}

\* the value initializeTags drew for every tag in the runs modelled
InitialTagValue == 999999

\* prefixes[i % 10] for the first tags: 'Sensor', 'Motor', 'Valve', 'Temp'
TagPrefixes ==
  <<<<83, 101, 110, 115, 111, 114>>, <<77, 111, 116, 111, 114>>,
    <<86, 97, 108, 118, 101>>, <<84, 101, 109, 112>>>>

\* generateTagNames: prefix + (floor(i / 10) + 1) + suffixes[floor(i / 10)],
\* which is prefix + '1' + 'A' for the first ten tags
TagName(i) == TagPrefixes[i] \o <<49, 65>>

\* decimal digits of a positive number, as ASCII
RECURSIVE Decimal(_)
Decimal(n) == IF n < 10 THEN <<48 + n>> ELSE Decimal(n \div 10) \o <<48 + (n % 10)>>

\* `Tag_${index + 1}`
TagAddress(i) == <<84, 97, 103, 95>> \o Decimal(i)

\* tags.get(name): the index of the tag of that name, 0 when there is none
TagIndexByName(name) ==
  IF \E i \in 1..NumTags : TagName(i) = name
  THEN CHOOSE i \in 1..NumTags : TagName(i) = name
  ELSE 0

\* findTagByAddress
findTagByAddress(address) ==
  IF \E i \in 1..NumTags : TagAddress(i) = address
  THEN CHOOSE i \in 1..NumTags : TagAddress(i) = address
  ELSE 0

\* valueToBuffer: writeInt32LE, two's complement
valueToBuffer(value) ==
  IF value >= 0 THEN writeUInt32LE(value)
  ELSE LET m == writeUInt32LE(-value - 1) IN [i \in 1..4 |-> 255 - m[i]]

\* buf.toString('ascii'): each byte masked to 7 bits
AsciiString(b) == [i \in 1..Len(b) |-> b[i] % 128]

(***************************************************************************)
(* CIPPath.parsePath.  A logical segment is [type, format, value], a       *)
(* symbolic one carries the symbol's characters in sym.  threw is the      *)
(* RangeError of readUInt16LE when a 16-bit segment has 3 bytes left.      *)
(***************************************************************************)
RECURSIVE parsePathFrom(_, _, _)
parsePathFrom(pathBuffer, offset, segments) ==
  IF ~(offset < Len(pathBuffer))
  THEN [segments |-> segments, threw |-> FALSE]
  ELSE
    LET segmentType   == pathBuffer[offset + 1]
        segmentFormat == (segmentType \div 4) % 8
        segmentClass  == (segmentType \div 32) * 32
    IN
    IF segmentClass = 32
    THEN
      IF offset + 1 >= Len(pathBuffer)
      THEN [segments |-> segments, threw |-> FALSE]
      ELSE
        IF segmentType % 2 = 1
        THEN
          IF offset + 3 > Len(pathBuffer)
          THEN [segments |-> segments, threw |-> FALSE]
          ELSE
            IF offset + 4 > Len(pathBuffer)
            THEN [segments |-> segments, threw |-> TRUE]
            ELSE parsePathFrom(pathBuffer, offset + 4,
                   Append(segments,
                     [type |-> "logical", format |-> segmentFormat,
                      value |-> readUInt16LE(pathBuffer, offset + 2), sym |-> <<>>]))
        ELSE parsePathFrom(pathBuffer, offset + 2,
               Append(segments,
                 [type |-> "logical", format |-> segmentFormat,
                  value |-> pathBuffer[offset + 2], sym |-> <<>>]))
    ELSE
      IF segmentType = 145
      THEN
        IF offset + 1 >= Len(pathBuffer)
        THEN [segments |-> segments, threw |-> FALSE]
        ELSE
          LET length == pathBuffer[offset + 2]
          IN
          IF offset + 2 + length > Len(pathBuffer)
          THEN [segments |-> segments, threw |-> FALSE]
          ELSE parsePathFrom(pathBuffer, offset + 2 + length + (length % 2),
                 Append(segments,
                   [type |-> "symbolic", format |-> 0, value |-> 0,
                    sym |-> AsciiString(Slice(pathBuffer, offset + 2, offset + 2 + length))]))
      ELSE parsePathFrom(pathBuffer, offset + 1, segments)

parsePath(pathBuffer) == parsePathFrom(pathBuffer, 0, <<>>)

\* CIPPath.buildSymbolicPath: 0x91, the length of the name, the name
buildSymbolicPath(tagName) == <<145, Len(tagName) % 256>> \o tagName

\* the value of the last logical segment of the given format, -1 (null) if none
LastLogical(segments, format) ==
  LET hits == {i \in 1..Len(segments) :
                 segments[i].type = "logical" /\ segments[i].format = format}
  IN  IF hits = {} THEN -1
      ELSE segments[CHOOSE i \in hits : \A j \in hits : j <= i].value

\* extractTagName on parsed segments: the first symbolic segment; found is
\* false for null
FirstSymbolic(segments) ==
  LET hits == {i \in 1..Len(segments) : segments[i].type = "symbolic"}
  IN  IF hits = {} THEN [found |-> FALSE, name |-> <<>>]
      ELSE [found |-> TRUE,
            name |-> segments[CHOOSE i \in hits : \A j \in hits : i <= j].sym]

(***************************************************************************)
(* CIPMessage.                                                             *)
(***************************************************************************)
\* CIPMessage.fromBuffer; ok is false where the source throws
cipFromBuffer(buffer) ==
  IF Len(buffer) < 2
  THEN [ok |-> FALSE, service |-> 0, path |-> <<>>, data |-> <<>>]
  ELSE
    LET pathEnd == 2 + buffer[2] * 2
    IN  IF Len(buffer) < pathEnd
        THEN [ok |-> FALSE, service |-> 0, path |-> <<>>, data |-> <<>>]
        ELSE [ok |-> TRUE, service |-> buffer[1],
              path |-> Slice(buffer, 2, pathEnd), data |-> SliceFrom(buffer, pathEnd)]

\* service | 0x80
ResponseBit(service) == IF service >= 128 THEN service ELSE service + 128

\* CIPMessage.createResponse: the status is kept as the first data byte
cipCreateResponse(message, status, data) ==
  [service |-> ResponseBit(message.service), path |-> <<>>, data |-> <<status>> \o data]

\* CIPMessage.toResponseBuffer
toResponseBuffer(m) ==
  <<m.service, 0, IF Len(m.data) > 0 THEN m.data[1] ELSE 0, 0>>
    \o (IF Len(m.data) > 1 THEN SliceFrom(m.data, 1) ELSE <<>>)

\* CIPMessage.toBuffer
cipToBuffer(m) ==
  IF m.service >= 128
  THEN toResponseBuffer(m)
  ELSE <<m.service, (Len(m.path) + 1) \div 2>> \o m.path \o m.data

(***************************************************************************)
(* CIP dispatch.  A handler takes the message and env = [tags, rnd, k,     *)
(* nsess]: the tag values, the values Math.random will produce, how many   *)
(* of them were consumed, and the number of live sessions.  It returns     *)
(* [resp, tags, k, threw]; threw is an exception leaving the handler.      *)
(***************************************************************************)
CipResult(resp, env) ==
  [resp |-> resp, tags |-> env.tags, k |-> env.k, threw |-> FALSE]

CipThrow(env) ==
  [resp |-> [service |-> 0, path |-> <<>>, data |-> <<>>],
   tags |-> env.tags, k |-> env.k, threw |-> TRUE]

IsDigit(x) == x >= 48 /\ x <= 57

\* [_\s] over 7-bit characters
IsTagSeparator(x) == x \in {95, 9, 10, 11, 12, 13, 32}

\* the length of the run of digits of s starting at position i (1-based)
RECURSIVE DigitRunLen(_, _)
DigitRunLen(s, i) ==
  IF i <= Len(s) /\ IsDigit(s[i]) THEN 1 + DigitRunLen(s, i + 1) ELSE 0

\* parseInt of the n digits of s starting at position i
RECURSIVE DigitRunValue(_, _, _)
DigitRunValue(s, i, n) ==
  IF n = 0 THEN 0
  ELSE DigitRunValue(s, i, n - 1) * 10 + (s[i + n - 1] - 48)

\* /Tag[_\s]?(\d+)/i tried at position i: the position of the digits, or 0
TagPatternAt(s, i) ==
  IF i + 2 <= Len(s) /\ s[i] \in {84, 116} /\ s[i + 1] \in {65, 97}
       /\ s[i + 2] \in {71, 103}
  THEN IF i + 3 <= Len(s) /\ IsDigit(s[i + 3]) THEN i + 3
       ELSE IF i + 4 <= Len(s) /\ IsTagSeparator(s[i + 3]) /\ IsDigit(s[i + 4])
            THEN i + 4 ELSE 0
  ELSE 0

\* the least element of a non-empty set of positions: where a regular
\* expression first matches
FirstMatch(S) == CHOOSE i \in S : \A j \in S : i <= j

\* where the digits handleReadTag parses start in the path string: after the
\* first `Tag`, else at the first digit, else 0
TagDigitsAt(pathStr) ==
  IF \E i \in 1..Len(pathStr) : TagPatternAt(pathStr, i) # 0
  THEN TagPatternAt(pathStr,
         FirstMatch({i \in 1..Len(pathStr) : TagPatternAt(pathStr, i) # 0}))
  ELSE IF \E i \in 1..Len(pathStr) : IsDigit(pathStr[i])
       THEN FirstMatch({i \in 1..Len(pathStr) : IsDigit(pathStr[i])})
       ELSE 0

\* `tagIndex >= 0 && tagIndex < allTags.length`: the tag (1-based), 0 for none
TagInRange(tagIndex) == IF tagIndex >= 0 /\ tagIndex < NumTags THEN tagIndex + 1 ELSE 0

\* parseInt(match[1]) - 1 for the digits at position at
TagIndexOfDigits(pathStr, at) ==
  IF at = 0 THEN 0
  ELSE TagInRange(DigitRunValue(pathStr, at, DigitRunLen(pathStr, at)) - 1)

\* the non-symbolic branch of handleReadTag: the tag index (1-based) the path
\* string resolves to, 0 for none
ReadTagIndexFromString(pathStr) == TagIndexOfDigits(pathStr, TagDigitsAt(pathStr))

\* the Read_Tag reply data for a value, with or without the DINT type code
TagReplyData(value, withType) ==
  IF withType THEN writeUInt16LE(196) \o valueToBuffer(value) ELSE valueToBuffer(value)

\* a read that replies with a fresh value and leaves the tag as it was
ReadTagHitStale(message, env, idx, withType) ==
  [resp  |-> cipCreateResponse(message, CIP_SUCCESS,
                               TagReplyData(env.rnd[env.k + 1], withType)),
   tags  |-> env.tags,
   k     |-> env.k + 1,
   threw |-> FALSE]

\* a read that draws a new value for every tag
ReadTagHitAll(message, env, idx, withType) ==
  [resp  |-> cipCreateResponse(message, CIP_SUCCESS,
                               TagReplyData(env.rnd[env.k + 1], withType)),
   tags  |-> [j \in DOMAIN env.tags |-> env.rnd[env.k + 1]],
   k     |-> env.k + 1,
   threw |-> FALSE]

\* tagManager.readTag on a tag that exists, and the Read_Tag reply
ReadTagHit(message, env, idx, withType) ==
  [resp  |-> cipCreateResponse(message, CIP_SUCCESS,
                               TagReplyData(env.rnd[env.k + 1], withType)),
   tags  |-> [env.tags EXCEPT ![idx] = env.rnd[env.k + 1]],
   k     |-> env.k + 1,
   threw |-> FALSE]

\* handleReadTag once the tag is resolved to idx (0: no such tag)
ReadTagAt(message, env, idx) ==
  IF idx = 0
  THEN CipResult(cipCreateResponse(message, CIP_PATH_DESTINATION_UNKNOWN, <<>>), env)
  ELSE ReadTagHit(message, env, idx, TRUE)

\* tagManager.readTag(tagName) || tagManager.findTagByAddress(tagName)
TagByNameOrAddress(name) ==
  IF TagIndexByName(name) # 0 THEN TagIndexByName(name) ELSE findTagByAddress(name)

\* handleReadTag after CIPPath.extractTagName
ReadTagNamed(message, env, tagName) ==
  ReadTagAt(message, env,
    IF tagName.found /\ Len(tagName.name) > 0
    THEN TagByNameOrAddress(tagName.name)
    ELSE ReadTagIndexFromString(AsciiString(SliceFrom(message.path, 2))))

\* handleReadTag after CIPPath.parsePath
ReadTagParsed(message, env, pp) ==
  IF pp.threw
  THEN CipResult(cipCreateResponse(message, CIP_GENERAL_ERROR, <<>>), env)
  ELSE ReadTagNamed(message, env, FirstSymbolic(pp.segments))

handleReadTag(message, env) == ReadTagParsed(message, env, parsePath(message.path))

handleIdentityObject(instanceId, attributeId, message) ==
  IF instanceId # 1 /\ instanceId # 0
  THEN cipCreateResponse(message, CIP_OBJECT_DOES_NOT_EXIST, <<>>)
  ELSE CASE attributeId = 1 -> cipCreateResponse(message, CIP_SUCCESS, writeUInt16LE(vendorId))
         [] attributeId = 2 -> cipCreateResponse(message, CIP_SUCCESS, writeUInt16LE(deviceType))
         [] attributeId = 3 ->
              cipCreateResponse(message, CIP_SUCCESS, writeUInt16LE(productCode % 65536))
         [] attributeId = 4 -> cipCreateResponse(message, CIP_SUCCESS, <<1, 0>>)
         [] attributeId = 5 -> cipCreateResponse(message, CIP_SUCCESS, writeUInt16LE(1))
         [] attributeId = 6 -> cipCreateResponse(message, CIP_SUCCESS, writeUInt32LE(0))
         [] attributeId = 7 ->
              cipCreateResponse(message, CIP_SUCCESS,
                                <<Len(productName) % 256>> \o productName)
         [] OTHER -> cipCreateResponse(message, CIP_ATTRIBUTE_NOT_SUPPORTED, <<>>)

handleMessageRouterObject(instanceId, attributeId, message) ==
  IF instanceId # 1 /\ instanceId # 0
  THEN cipCreateResponse(message, CIP_OBJECT_DOES_NOT_EXIST, <<>>)
  ELSE CASE attributeId = 1 -> cipCreateResponse(message, CIP_SUCCESS, writeUInt16LE(3))
         [] attributeId = 2 -> cipCreateResponse(message, CIP_SUCCESS, writeUInt16LE(0))
         [] attributeId = 3 -> cipCreateResponse(message, CIP_SUCCESS, writeUInt16LE(0))
         [] OTHER -> cipCreateResponse(message, CIP_ATTRIBUTE_NOT_SUPPORTED, <<>>)

handleConnectionManagerObject(instanceId, attributeId, message, nsess) ==
  IF instanceId # 1 /\ instanceId # 0
  THEN cipCreateResponse(message, CIP_OBJECT_DOES_NOT_EXIST, <<>>)
  ELSE CASE attributeId = 1 -> cipCreateResponse(message, CIP_SUCCESS, writeUInt16LE(128))
         [] attributeId = 2 -> cipCreateResponse(message, CIP_SUCCESS, writeUInt16LE(nsess))
         [] OTHER -> cipCreateResponse(message, CIP_ATTRIBUTE_NOT_SUPPORTED, <<>>)

\* the attribute id: from the path, else from the first two data bytes
AttributeIdOf(message, attrInPath) ==
  IF attrInPath = -1 /\ Len(message.data) >= 2
  THEN readUInt16LE(message.data, 0) ELSE attrInPath

\* handleGetAttributeSingle on a class it has no object for: a tag read by name
GetAttributeOfTag(message, env, idx) ==
  IF idx # 0 THEN ReadTagHit(message, env, idx, FALSE)
  ELSE CipResult(cipCreateResponse(message, CIP_OBJECT_DOES_NOT_EXIST, <<>>), env)

\* handleGetAttributeSingle once class, instance, attribute and tag name are
\* taken from the path
GetAttributeSingleOf(message, env, classId, instanceId, attributeId, tagName) ==
  CASE classId = 1 ->
         CipResult(handleIdentityObject(instanceId, attributeId, message), env)
    [] classId = 2 ->
         CipResult(handleMessageRouterObject(instanceId, attributeId, message), env)
    [] classId = 6 ->
         CipResult(handleConnectionManagerObject(instanceId, attributeId,
                                                 message, env.nsess), env)
    [] OTHER ->
         GetAttributeOfTag(message, env,
           IF tagName.found /\ Len(tagName.name) > 0
           THEN TagIndexByName(tagName.name) ELSE 0)

\* handleGetAttributeSingle after CIPPath.parsePath
GetAttributeSingleParsed(message, env, pp) ==
  IF pp.threw
  THEN CipResult(cipCreateResponse(message, CIP_GENERAL_ERROR, <<>>), env)
  ELSE IF Len(pp.segments) = 0 \/ LastLogical(pp.segments, 0) = -1
       THEN CipResult(cipCreateResponse(message, CIP_PATH_SEGMENT_ERROR, <<>>), env)
       ELSE GetAttributeSingleOf(message, env,
              LastLogical(pp.segments, 0), LastLogical(pp.segments, 1),
              AttributeIdOf(message, LastLogical(pp.segments, 4)),
              FirstSymbolic(pp.segments))

handleGetAttributeSingle(message, env) ==
  GetAttributeSingleParsed(message, env, parsePath(message.path))

handleIdentityGetAttributeAll(message) ==
  LET productNameLength == Min(Len(productName), 32)
  IN  cipCreateResponse(message, CIP_SUCCESS,
        writeUInt16LE(vendorId) \o writeUInt16LE(deviceType)
          \o writeUInt16LE(productCode % 65536) \o <<1, 0>> \o writeUInt16LE(0)
          \o writeUInt32LE(305419896) \o <<productNameLength>>
          \o Slice(productName, 0, productNameLength))

\* handleGetAttributeAll after CIPPath.parsePath, whose exception it does
\* not catch
GetAttributeAllParsed(message, env, pp) ==
  IF pp.threw THEN CipThrow(env)
  ELSE IF LastLogical(pp.segments, 0) = 1
       THEN CipResult(handleIdentityGetAttributeAll(message), env)
       ELSE CipResult(cipCreateResponse(message, CIP_SERVICE_NOT_SUPPORTED, <<>>), env)

handleGetAttributeAll(message, env) ==
  GetAttributeAllParsed(message, env, parsePath(message.path))

RECURSIVE Flatten(_)
Flatten(bufs) == IF bufs = <<>> THEN <<>> ELSE Head(bufs) \o Flatten(Tail(bufs))

\* offsets that count every body as 4 bytes long
ResponseOffsetFixed(bufs, headerSize, i) == headerSize + 4 * (i - 1)

\* the offset of response body i (1-based): headerSize plus the earlier bodies
RECURSIVE ResponseOffset(_, _, _)
ResponseOffset(bufs, headerSize, i) ==
  IF i = 1 THEN headerSize
  ELSE ResponseOffset(bufs, headerSize, i - 1) + Len(bufs[i - 1])

RECURSIVE handleCIPMessage(_, _)
RECURSIVE ProcessServices(_, _, _, _, _)

\* an embedded service whose handling threw recorded as served
EmbeddedFailureAsSuccess(service) ==
  [service |-> ResponseBit(service), path |-> <<>>, data |-> <<CIP_SUCCESS>>]

\* the response recorded for an embedded service whose handling threw
EmbeddedGeneralError(service) ==
  [service |-> ResponseBit(service), path |-> <<>>, data |-> <<CIP_GENERAL_ERROR>>]

\* the loop over the embedded services, after handleCIPMessage returned r
\* for service i
ProcessEmbeddedResult(message, serviceCount, i, responses, env, service, r) ==
  ProcessServices(message, serviceCount, i + 1,
    Append(responses, IF r.threw THEN EmbeddedGeneralError(service) ELSE r.resp),
    [env EXCEPT !.tags = r.tags, !.k = r.k])

\* ... after CIPMessage.fromBuffer of service i
ProcessEmbedded(message, serviceCount, i, responses, env, service, embedded) ==
  IF ~embedded.ok
  THEN ProcessServices(message, serviceCount, i + 1,
                       Append(responses, EmbeddedGeneralError(service)), env)
  ELSE ProcessEmbeddedResult(message, serviceCount, i, responses, env, service,
                             handleCIPMessage(embedded, env))

\* ... after slicing serviceData for service i
ProcessService(message, serviceCount, i, responses, env, serviceData) ==
  IF Len(serviceData) < 2
  THEN ProcessServices(message, serviceCount, i + 1,
         Append(responses,
                [service |-> 128, path |-> <<>>, data |-> <<CIP_NOT_ENOUGH_DATA>>]),
         env)
  ELSE ProcessEmbedded(message, serviceCount, i, responses, env, serviceData[1],
                       cipFromBuffer(serviceData))

\* the loop over the embedded services of a Multiple Service Packet
ProcessServices(message, serviceCount, i, responses, env) ==
  IF ~(i < serviceCount)
  THEN [responses |-> responses, tags |-> env.tags, k |-> env.k]
  ELSE ProcessService(message, serviceCount, i, responses, env,
         Slice(message.data,
               readUInt16LE(message.data, 2 + i * 2),
               IF i < serviceCount - 1
               THEN readUInt16LE(message.data, 2 + (i + 1) * 2)
               ELSE Len(message.data)))

\* the reply of handleMultipleServicePacket from the encoded responses; an
\* offset above 65535 makes writeUInt16LE throw
MultipleServiceReply(message, serviceCount, responseBuffers, env) ==
  IF \E i \in 1..serviceCount :
       ResponseOffset(responseBuffers, 2 + serviceCount * 2, i) > 65535
  THEN CipThrow(env)
  ELSE CipResult(
         cipCreateResponse(message, CIP_SUCCESS,
           writeUInt16LE(serviceCount)
             \o Flatten([i \in 1..serviceCount |->
                           writeUInt16LE(ResponseOffset(responseBuffers,
                                                        2 + serviceCount * 2, i))])
             \o Flatten(responseBuffers)),
         env)

\* handleMultipleServicePacket after the loop over the services
MultipleServiceDone(message, env, serviceCount, done) ==
  MultipleServiceReply(message, serviceCount,
    [i \in 1..serviceCount |-> cipToBuffer(done.responses[i])],
    [env EXCEPT !.tags = done.tags, !.k = done.k])

handleMultipleServicePacket(message, env) ==
  IF Len(message.data) < 2
  THEN CipResult(cipCreateResponse(message, CIP_NOT_ENOUGH_DATA, <<>>), env)
  ELSE IF Len(message.data) < 2 + readUInt16LE(message.data, 0) * 2
       THEN CipResult(cipCreateResponse(message, CIP_NOT_ENOUGH_DATA, <<>>), env)
       ELSE MultipleServiceDone(message, env, readUInt16LE(message.data, 0),
              ProcessServices(message, readUInt16LE(message.data, 0), 0, <<>>, env))

\* handleUnconnectedSend after handleCIPMessage returned r for the embedded
\* message
UnconnectedSendResult(message, r) ==
  IF r.threw
  THEN [resp |-> cipCreateResponse(message, CIP_GENERAL_ERROR, <<>>),
        tags |-> r.tags, k |-> r.k, threw |-> FALSE]
  ELSE r

\* handleUnconnectedSend after CIPMessage.fromBuffer of the embedded message
UnconnectedSendEmbedded(message, env, embedded) ==
  IF ~embedded.ok
  THEN CipResult(cipCreateResponse(message, CIP_GENERAL_ERROR, <<>>), env)
  ELSE UnconnectedSendResult(message, handleCIPMessage(embedded, env))

handleUnconnectedSend(message, env) ==
  IF Len(message.data) < 4
  THEN CipResult(cipCreateResponse(message, CIP_NOT_ENOUGH_DATA, <<>>), env)
  ELSE IF Len(message.data) < 4 + readUInt16LE(message.data, 2)
       THEN CipResult(cipCreateResponse(message, CIP_NOT_ENOUGH_DATA, <<>>), env)
       ELSE UnconnectedSendEmbedded(message, env,
              cipFromBuffer(Slice(message.data, 4,
                                  4 + readUInt16LE(message.data, 2))))

\* the dispatch of handleCIPMessage on service = message.service & 0x7F
ServiceDispatch(message, env, service) ==
  CASE service = 10 -> handleMultipleServicePacket(message, env)
    [] service = 82 -> handleUnconnectedSend(message, env)
    [] service = 76 -> handleReadTag(message, env)
    [] service = 14 -> handleGetAttributeSingle(message, env)
    [] service = 1  -> handleGetAttributeAll(message, env)
    [] OTHER -> CipResult(cipCreateResponse(message, CIP_SERVICE_NOT_SUPPORTED, <<>>), env)

handleCIPMessage(message, env) == ServiceDispatch(message, env, message.service % 128)

\* the greatest element of a non-empty set of numbers
SetMax(S) == CHOOSE x \in S : \A y \in S : y <= x

\* a sub-request that is the enclosing message over again
ServiceDataWithHeader(message, serviceCount, i) ==
  <<message.service, Len(message.path) \div 2>> \o message.path \o message.data

\* serviceData of service i (0-based) in the loop of handleMultipleServicePacket
ServiceData(message, serviceCount, i) ==
  Slice(message.data,
        readUInt16LE(message.data, 2 + i * 2),
        IF i < serviceCount - 1
        THEN readUInt16LE(message.data, 2 + (i + 1) * 2)
        ELSE Len(message.data))

\* how many calls of handleCIPMessage are on the stack at the deepest point
\* of the dispatch of message: every embedded message that parses is
\* dispatched by a nested call
RECURSIVE DispatchDepth(_)
DispatchDepth(message) ==
  1 + (CASE message.service % 128 = 82 ->
              IF Len(message.data) >= 4
                   /\ Len(message.data) >= 4 + readUInt16LE(message.data, 2)
                   /\ cipFromBuffer(Slice(message.data, 4,
                                          4 + readUInt16LE(message.data, 2))).ok
              THEN DispatchDepth(cipFromBuffer(Slice(message.data, 4,
                                   4 + readUInt16LE(message.data, 2))))
              ELSE 0
         [] message.service % 128 = 10 ->
              IF Len(message.data) >= 2
                   /\ Len(message.data) >= 2 + readUInt16LE(message.data, 0) * 2
              THEN SetMax({0} \cup
                     {DispatchDepth(cipFromBuffer(
                        ServiceData(message, readUInt16LE(message.data, 0), i))) :
                      i \in {j \in 0..(readUInt16LE(message.data, 0) - 1) :
                               cipFromBuffer(ServiceData(message,
                                 readUInt16LE(message.data, 0), j)).ok}})
              ELSE 0
         [] OTHER -> 0)

(***************************************************************************)
(* Encapsulation handlers.  A handler takes the decoded packet, the byte   *)
(* order detected for its frame and st = [sessions, next, tags]; it        *)
(* returns the new registry and tags, out (the buffers given to            *)
(* socket.write, in order) and threw (the returned promise rejects).       *)
(***************************************************************************)
HandlerReply(sessions, next, tags, buf) ==
  [sessions |-> sessions, next |-> next, tags |-> tags, out |-> <<buf>>, threw |-> FALSE]

HandlerThrow(sessions, next, tags) ==
  [sessions |-> sessions, next |-> next, tags |-> tags, out |-> <<>>, threw |-> TRUE]

\* value <= 0xFFFFFFFF, the range writeUInt32BE and writeUInt32LE accept
FitsUInt32(v) == v >= 0 /\ v \div 65536 < 65536

\* the protocol version check of handleRegisterSession: TRUE when the request
\* is answered UNSUPPORTED_PROTOCOL
RegisterRejects(data, isLittleEndian) ==
  /\ Len(data) >= 2
  /\ (IF isLittleEndian THEN readUInt16LE(data, 0) ELSE readUInt16BE(data, 0)) # 1

\* the 4 response bytes of a successful REGISTER_SESSION
RegisterResponseData(isLittleEndian) ==
  IF isLittleEndian
  THEN writeUInt16LE(1) \o writeUInt16LE(0)
  ELSE writeUInt16BE(1) \o writeUInt16BE(0)

\* handleRegisterSession after sessionManager.createSession returned
\* created: response.toBuffer() runs for both byte orders and throws on a
\* handle that does not fit 32 bits
RegisterCreated(packet, isLittleEndian, st, created) ==
  IF ~FitsUInt32(created.handle)
  THEN HandlerThrow(created.sessions, created.next, st.tags)
  ELSE HandlerReply(created.sessions, created.next, st.tags,
         EncodeResponse(isLittleEndian,
           [createResponse(packet, STATUS_SUCCESS, RegisterResponseData(isLittleEndian))
              EXCEPT !.sessionHandle = created.handle],
           RegisterResponseData(isLittleEndian)))

handleRegisterSession(packet, isLittleEndian, st, now) ==
  IF RegisterRejects(packet.data, isLittleEndian)
  THEN HandlerReply(st.sessions, st.next, st.tags,
         EncodeResponse(isLittleEndian,
                        createResponse(packet, STATUS_UNSUPPORTED_PROTOCOL, <<>>), <<>>))
  ELSE RegisterCreated(packet, isLittleEndian, st,
                       createSession(st.sessions, st.next, now))

handleUnregisterSession(packet, isLittleEndian, st) ==
  IF hasSession(st.sessions, packet.sessionHandle)
  THEN HandlerReply(removeSession(st.sessions, packet.sessionHandle), st.next, st.tags,
         EncodeResponse(isLittleEndian, createResponse(packet, STATUS_SUCCESS, <<>>), <<>>))
  ELSE HandlerReply(st.sessions, st.next, st.tags,
         EncodeResponse(isLittleEndian,
                        createResponse(packet, STATUS_INVALID_SESSION_HANDLE, <<>>), <<>>))

read16(isLittleEndian, b, off) ==
  IF isLittleEndian THEN readUInt16LE(b, off) ELSE readUInt16BE(b, off)

read32(isLittleEndian, b, off) ==
  IF isLittleEndian THEN readUInt32LE(b, off) ELSE readUInt32BE(b, off)

write16(isLittleEndian, v) ==
  IF isLittleEndian THEN writeUInt16LE(v) ELSE writeUInt16BE(v)

write32(isLittleEndian, v) ==
  IF isLittleEndian THEN writeUInt32LE(v) ELSE writeUInt32BE(v)

\* the loop over the CPF items: the last 0x00B2 item is the CIP message; threw
\* is the RangeError of a read past the end of the payload
RECURSIVE ParseCpfItems(_, _, _, _, _, _)
ParseCpfItems(data, isLittleEndian, itemCount, i, offset, cip) ==
  IF ~(i < itemCount /\ offset < Len(data))
  THEN [threw |-> FALSE, cip |-> cip]
  ELSE IF offset + 4 > Len(data)
       THEN [threw |-> TRUE, cip |-> cip]
       ELSE
         LET itemType   == read16(isLittleEndian, data, offset)
             itemLength == read16(isLittleEndian, data, offset + 2)
         IN  ParseCpfItems(data, isLittleEndian, itemCount, i + 1,
               offset + 4 + itemLength,
               IF itemType = 178
               THEN Slice(data, offset + 4, offset + 4 + itemLength) ELSE cip)

\* the fields of the CPF payload, items being the result of the item loop
CpfParsed(data, isLittleEndian, items) ==
  [threw |-> items.threw, cip |-> items.cip,
   interfaceHandle |-> read32(isLittleEndian, data, 0),
   timeout |-> read16(isLittleEndian, data, 4)]

ParseCpf(data, isLittleEndian) ==
  IF Len(data) >= 16
  THEN CpfParsed(data, isLittleEndian,
         ParseCpfItems(data, isLittleEndian, read16(isLittleEndian, data, 6),
                       0, 8, <<>>))
  ELSE [threw |-> FALSE, cip |-> <<>>, interfaceHandle |-> 0, timeout |-> 0]

\* the CPF response payload around a CIP response
CpfResponseData(isLittleEndian, interfaceHandle, timeout, cipResponseBuffer) ==
  write32(isLittleEndian, interfaceHandle) \o write16(isLittleEndian, timeout)
    \o write16(isLittleEndian, 2)
    \o write16(isLittleEndian, 0) \o write16(isLittleEndian, 0)
    \o write16(isLittleEndian, 178) \o write16(isLittleEndian, Len(cipResponseBuffer))
    \o cipResponseBuffer

\* handleSendRRData without its session check
SessionNotChecked(sessions, handle) == TRUE

SessionLive(sessions, handle) == hasSession(sessions, handle)

\* the catch block of handleSendRRData: INVALID_LENGTH, empty payload
SendRRDataInvalidLength(packet, isLittleEndian, sessions, next, tags) ==
  HandlerReply(sessions, next, tags,
    EncodeResponse(isLittleEndian,
                   createResponse(packet, STATUS_INVALID_LENGTH, <<>>), <<>>))

\* the SUCCESS response of handleSendRRData around responseData
SendRRDataSuccess(packet, isLittleEndian, sessions, next, tags, responseData) ==
  HandlerReply(sessions, next, tags,
    EncodeResponse(isLittleEndian,
                   createResponse(packet, STATUS_SUCCESS, responseData),
                   responseData))

\* handleSendRRData after handleCIPMessage returned r
SendRRDataResult(packet, isLittleEndian, sessions, next, cpf, r) ==
  IF r.threw
  THEN SendRRDataInvalidLength(packet, isLittleEndian, sessions, next, r.tags)
  ELSE SendRRDataSuccess(packet, isLittleEndian, sessions, next, r.tags,
         CpfResponseData(isLittleEndian, cpf.interfaceHandle, cpf.timeout,
                         cipToBuffer(r.resp)))

\* handleSendRRData after CIPMessage.fromBuffer
SendRRDataMessage(packet, isLittleEndian, st, sessions, cpf, cipMessage, rnd) ==
  IF ~cipMessage.ok
  THEN SendRRDataInvalidLength(packet, isLittleEndian, sessions, st.next, st.tags)
  ELSE SendRRDataResult(packet, isLittleEndian, sessions, st.next, cpf,
         handleCIPMessage(cipMessage,
           [tags |-> st.tags, rnd |-> rnd, k |-> 0,
            nsess |-> getAllSessionsLength(sessions)]))

\* handleSendRRData after updateActivity and the parsing of the CPF items
SendRRDataParsed(packet, isLittleEndian, st, sessions, cpf, rnd) ==
  IF cpf.threw
  THEN SendRRDataInvalidLength(packet, isLittleEndian, sessions, st.next, st.tags)
  ELSE SendRRDataMessage(packet, isLittleEndian, st, sessions, cpf,
                         cipFromBuffer(cpf.cip), rnd)

handleSendRRData(packet, isLittleEndian, st, now, rnd) ==
  IF ~SessionLive(st.sessions, packet.sessionHandle)
  THEN HandlerReply(st.sessions, st.next, st.tags,
         EncodeResponse(isLittleEndian,
                        createResponse(packet, STATUS_INVALID_SESSION_HANDLE, <<>>), <<>>))
  ELSE SendRRDataParsed(packet, isLittleEndian, st,
         updateActivity(st.sessions, packet.sessionHandle, now),
         ParseCpf(packet.data, isLittleEndian), rnd)

\* the 16-byte service descriptor of handleListServices
ListServicesData ==
  writeUInt16BE(1) \o writeUInt16BE(1) \o writeUInt16BE(1) \o writeUInt16BE(0) \o Zeros(8)

handleListServices(packet, isLittleEndian, st) ==
  HandlerReply(st.sessions, st.next, st.tags,
    EncodeResponse(isLittleEndian,
                   createResponse(packet, STATUS_SUCCESS, ListServicesData),
                   ListServicesData))

\* (ipParts[0] << 24) | (ipParts[1] << 16) | (ipParts[2] << 8) | ipParts[3]
\* as a signed 32-bit integer: a first octet of 128 or more sets the sign bit
IpAddressInt32(ip) ==
  (IF ip[1] >= 128 THEN ip[1] - 256 ELSE ip[1]) * 16777216
    + ip[2] * 65536 + ip[3] * 256 + ip[4]

\* the bytes the writes of handleListIdentity address, for a name of
\* nameLength bytes
IdentityLayout(ipAddress, nameLength) ==
  writeUInt16BE(0) \o writeUInt16BE(0) \o writeUInt32BE(ipAddress)
    \o writeUInt16BE(0) \o writeUInt16BE(0)
    \o writeUInt16BE(vendorId) \o writeUInt16BE(deviceType)
    \o writeUInt32BE(productCode) \o <<1, 0>> \o writeUInt16BE(1)
    \o writeUInt32BE(0) \o writeUInt16BE(nameLength)
    \o Slice(productName, 0, nameLength) \o <<0>>

\* the response of handleListIdentity; identityData is the allocated buffer
IdentityReply(packet, isLittleEndian, st, identityData) ==
  HandlerReply(st.sessions, st.next, st.tags,
    EncodeResponse(isLittleEndian,
                   createResponse(packet, STATUS_SUCCESS, identityData),
                   identityData))

\* handleListIdentity for a product name cut to nameLength: the buffer holds
\* the first 16 + 2 + nameLength + 1 bytes of the layout; writeUInt32BE of a
\* negative address, or a fixed-offset write past the end of the buffer,
\* throws a RangeError
ListIdentityOf(packet, isLittleEndian, st, ipAddress, nameLength) ==
  IF ipAddress < 0 \/ 16 + 2 + nameLength + 1 < 30
  THEN HandlerThrow(st.sessions, st.next, st.tags)
  ELSE IdentityReply(packet, isLittleEndian, st,
         Slice(IdentityLayout(ipAddress, nameLength), 0, 16 + 2 + nameLength + 1))

handleListIdentity(packet, isLittleEndian, st, localAddress) ==
  ListIdentityOf(packet, isLittleEndian, st, IpAddressInt32(localAddress),
                 Min(Len(productName), 32))

\* registerDefaultHandlers: the commands of messageHandlers
HasHandler(command) ==
  command \in {CMD_REGISTER_SESSION, CMD_UNREGISTER_SESSION, CMD_SEND_RR_DATA,
               CMD_LIST_SERVICES, CMD_LIST_IDENTITY}

\* handler(socket, packet, isLittleEndian) for a registered command
Dispatch(packet, isLittleEndian, st, io) ==
  CASE packet.command = CMD_REGISTER_SESSION ->
         handleRegisterSession(packet, isLittleEndian, st, io.now)
    [] packet.command = CMD_UNREGISTER_SESSION ->
         handleUnregisterSession(packet, isLittleEndian, st)
    [] packet.command = CMD_SEND_RR_DATA ->
         handleSendRRData(packet, isLittleEndian, st, io.now, io.rnd)
    [] packet.command = CMD_LIST_SERVICES ->
         handleListServices(packet, isLittleEndian, st)
    [] packet.command = CMD_LIST_IDENTITY ->
         handleListIdentity(packet, isLittleEndian, st, io.localAddress)

\* the branch of the data handler for a command without a handler
\* an unknown command answered as a length error
UnknownCommandAsLengthError(packet, isLittleEndian) ==
  EncodeResponse(isLittleEndian,
                 createResponse(packet, STATUS_INVALID_LENGTH, <<>>), <<>>)

UnknownCommandResponse(packet, isLittleEndian) ==
  EncodeResponse(isLittleEndian,
                 createResponse(packet, STATUS_INVALID_COMMAND, <<>>), <<>>)

(***************************************************************************)
(* The clients.  A client encodes every integer of a frame, payload        *)
(* included, in its own byte order (test-register-session.js builds the    *)
(* big-endian REGISTER_SESSION this way).                                  *)
(***************************************************************************)
\* '_pycomm_'
PycommContext == <<95, 112, 121, 99, 111, 109, 109, 95>>

OtherContext == <<1, 2, 3, 4, 5, 6, 7, 8>>

ClientFrame(isLittleEndian, command, length, sessionHandle, context, payload) ==
  write16(isLittleEndian, command) \o write16(isLittleEndian, length)
    \o write32(isLittleEndian, sessionHandle) \o write32(isLittleEndian, 0)
    \o context \o write32(isLittleEndian, 0) \o payload

\* REGISTER_SESSION payload: protocol version, options flags
RegisterPayload(isLittleEndian, version) ==
  write16(isLittleEndian, version) \o write16(isLittleEndian, 0)

\* SEND_RR_DATA payload: interface handle 0, timeout 5, a null address item
\* and an unconnected data item holding the CIP request
CpfPayload(isLittleEndian, cip) ==
  write32(isLittleEndian, 0) \o write16(isLittleEndian, 5) \o write16(isLittleEndian, 2)
    \o write16(isLittleEndian, 0) \o write16(isLittleEndian, 0)
    \o write16(isLittleEndian, 178) \o write16(isLittleEndian, Len(cip)) \o cip

\* Read_Tag of 'Sensor1A', one element
CipReadSensor1A == <<76, 5, 145, 8>> \o TagName(1) \o <<1, 0>>

\* Get_Attribute_Single of Connection Manager instance 1 attribute 2
CipGetSessionCount == <<14, 3, 32, 6, 36, 1, 48, 2>>

\* Reset (0x05), a service the dispatcher does not implement
CipReset == <<5, 0>>

Register(isLittleEndian, version) ==
  ClientFrame(isLittleEndian, CMD_REGISTER_SESSION, 4, 0, PycommContext,
              RegisterPayload(isLittleEndian, version))

Unregister(isLittleEndian, handle) ==
  ClientFrame(isLittleEndian, CMD_UNREGISTER_SESSION, 0, handle, OtherContext, <<>>)

SendRRData(isLittleEndian, handle, cip) ==
  ClientFrame(isLittleEndian, CMD_SEND_RR_DATA, Len(CpfPayload(isLittleEndian, cip)),
              handle, OtherContext, CpfPayload(isLittleEndian, cip))

Simple(isLittleEndian, command) ==
  ClientFrame(isLittleEndian, command, 0, 0, OtherContext, <<>>)

Profiles ==
  {"sessionBE", "sessionLE", "version", "short", "services", "identity",
   "unknown", "oversize", "malformed", "idle"}

\* the frames the clients of a run send
ProfileFrames(p) ==
  CASE p = "sessionBE" ->
         {Register(FALSE, 1), Unregister(FALSE, 1),
          SendRRData(FALSE, 1, CipReadSensor1A)}
    [] p = "sessionLE" ->
         {Register(TRUE, 1), Unregister(TRUE, 1),
          SendRRData(TRUE, 1, CipGetSessionCount)}
    [] p = "version" ->
         {Register(FALSE, 2), Register(TRUE, 2),
          ClientFrame(TRUE, CMD_REGISTER_SESSION, 4, 7, OtherContext,
                      RegisterPayload(TRUE, 1))}
    [] p = "short" ->
         {Register(FALSE, 1),
          ClientFrame(FALSE, CMD_REGISTER_SESSION, 0, 0, PycommContext, <<>>),
          ClientFrame(FALSE, CMD_REGISTER_SESSION, 1, 0, PycommContext, <<1>>)}
    [] p = "services" ->
         {Simple(FALSE, CMD_LIST_SERVICES), Simple(TRUE, CMD_LIST_SERVICES)}
    [] p = "identity" ->
         {Simple(FALSE, CMD_LIST_IDENTITY), Simple(TRUE, CMD_LIST_IDENTITY)}
    [] p = "unknown" ->
         {Simple(FALSE, CMD_NOP),
          ClientFrame(FALSE, CMD_SEND_UNIT_DATA, 2, 1, PycommContext, <<9, 9>>),
          ClientFrame(TRUE, CMD_SEND_UNIT_DATA, 2, 1, PycommContext, <<9, 9>>),
          Register(TRUE, 1)}
    [] p = "oversize" ->
         {ClientFrame(FALSE, CMD_SEND_UNIT_DATA, 65535, 0, OtherContext, <<>>),
          Register(TRUE, 1), SendRRData(FALSE, 1, CipReadSensor1A)}
    [] p = "malformed" ->
         {Register(TRUE, 1),
          ClientFrame(TRUE, CMD_SEND_RR_DATA, 0, 1, OtherContext, <<>>),
          SendRRData(TRUE, 1, CipReset)}
    [] p = "idle" ->
         {Register(FALSE, 1), SendRRData(FALSE, 1, CipReadSensor1A)}
    [] p = "sweep" ->
         {Register(FALSE, 1), SendRRData(FALSE, 1, CipReadSensor1A),
          SendRRData(FALSE, 2, CipGetSessionCount),
          ClientFrame(FALSE, CMD_LIST_SERVICES, 0, 1, OtherContext, <<>>)}
    [] p = "stream" ->
         {Simple(FALSE, CMD_LIST_IDENTITY), Simple(FALSE, CMD_LIST_SERVICES),
          Simple(TRUE, CMD_LIST_SERVICES)}
    [] p = "discard" ->
         {ClientFrame(FALSE, CMD_SEND_UNIT_DATA, MaxPacketLength - HeaderLength + 1, 0,
                      OtherContext, <<>>),
          Register(FALSE, 1), Simple(FALSE, CMD_LIST_SERVICES)}
    [] p = "framing" ->
         {Register(TRUE, 1), Simple(TRUE, CMD_LIST_SERVICES),
          ClientFrame(TRUE, CMD_SEND_UNIT_DATA, 2, 1, PycommContext, <<9, 9>>)}

\* socket.localAddress of an accepted connection: the loopback address, and
\* in the runs that list the identity also a LAN address
LocalAddresses(p) ==
  IF p = "identity" THEN {<<127, 0, 0, 1>>, <<192, 168, 1, 10>>}
  ELSE {<<127, 0, 0, 1>>}

\* how far the clock moves in one step; only the "idle" and "sweep" runs
\* last long enough for the clock to matter, and the "sweep" runs also stop
\* the clock exactly at the timeout
TimeSteps(p) ==
  CASE p = "idle"  -> {SweepIntervalMs, IdleTimeoutMs + 1}
    [] p = "sweep" -> {SweepIntervalMs, IdleTimeoutMs, IdleTimeoutMs + 1}
    [] OTHER       -> {}

Conns == 1..NumConns

(***************************************************************************)
(* State.                                                                  *)
(*   profile            the frames the clients of this run send            *)
(*   conn, localAddress per connection: "none", "open" or "closed", and    *)
(*                      socket.localAddress                                *)
(*   wire               bytes a client has sent that no data event has     *)
(*                      delivered yet                                      *)
(*   buffer             the `buffer` of handleConnection                   *)
(*   susp               per connection, the iterations of the data handler *)
(*                      suspended at `await handler(...)`, oldest first    *)
(*   sessions, nextSessionHandle   the SessionManager                      *)
(*   tags               the TagManager's values                            *)
(*   now                Date.now() in ms since the server started          *)
(* History (not read by the program):                                      *)
(*   handled            the frames handled by the latest step              *)
(*   claimed            per connection, how many bytes at the head of      *)
(*                      buffer were already handed to a handler            *)
(*   unregistered       handles removed by a successful UNREGISTER_SESSION *)
(*   owner              <<handle, connection>> for every session created   *)
(*   nsent, ticks       frames sent and clock steps so far                 *)
(*   stream, log        per connection, the bytes the data events have     *)
(*                      delivered and the frames handled, in order; kept   *)
(*                      in the runs whose properties read them             *)
(***************************************************************************)
VARIABLES profile, conn, localAddress, wire, buffer, susp, sessions,
          nextSessionHandle, tags, now, handled, claimed, unregistered,
          owner, nsent, ticks, stream, log

vars == <<profile, conn, localAddress, wire, buffer, susp, sessions,
          nextSessionHandle, tags, now, handled, claimed, unregistered,
          owner, nsent, ticks, stream, log>>

\* the runs that keep stream and log
Recorded(p) == p \in {"sweep", "stream", "framing", "discard"}

\* a probe that knows the three session commands only
KnownSessionCommand(command) == command \in {101, 102, 111}

\* the endianness probe of the data handler
KnownCommand(command) == command \in {101, 102, 111, 4, 99}

DetectLittleEndian(buf) ==
  KnownCommand(readUInt16LE(buf, 0)) /\ ~KnownCommand(readUInt16BE(buf, 0))

\* the record kept in `handled` for one frame
HandledRecord(c, isLittleEndian, frame, already, known, st, r, io) ==
  [conn |-> c, isLittleEndian |-> isLittleEndian, frame |-> frame, already |-> already,
   known |-> known, out |-> r.out, threw |-> r.threw,
   sessionsBefore |-> st.sessions, nextBefore |-> st.next, tagsBefore |-> st.tags,
   sessionsAfter |-> r.sessions, tagsAfter |-> r.tags,
   gone |-> read32(isLittleEndian, frame, 4) \in io.unregistered]

(***************************************************************************)
(* The `while (buffer.length >= 24)` loop of the data handler, run from a  *)
(* buffer whose first `already` bytes were dispatched before, until it     *)
(* breaks or suspends at `await handler(...)`.  A handler runs when it is called, so *)
(* its effects and its socket.write belong to the step that dispatches it; *)
(* the iteration then waits in susp for its continuation.  A frame whose   *)
(* command has no handler is answered and sliced off without suspending.   *)
(***************************************************************************)
RECURSIVE ProcessPackets(_, _, _, _, _, _)

\* the loop after `await handler(...)` was reached for a frame: the handler
\* has run and returned r
Suspended(c, buf, already, st, acc, io, frame, r) ==
  [buffer |-> buf, claimed |-> Max(already, frame.packetLength),
   st |-> [sessions |-> r.sessions, next |-> r.next, tags |-> r.tags],
   handled |-> Append(acc, HandledRecord(c, frame.isLittleEndian, frame.packetBuffer,
                                         already, TRUE, st, r, io)),
   suspended |-> <<[packetLength |-> frame.packetLength, rejected |-> r.threw]>>]

\* the loop on a complete frame, decoded as packet
HandlePacket(c, buf, already, st, acc, io, frame, packet) ==
  IF HasHandler(packet.command)
  THEN Suspended(c, buf, already, st, acc, io, frame,
                 Dispatch(packet, frame.isLittleEndian, st, io))
  ELSE ProcessPackets(c, SliceFrom(buf, frame.packetLength),
         Max(0, already - frame.packetLength), st,
         Append(acc,
           HandledRecord(c, frame.isLittleEndian, frame.packetBuffer, already, FALSE, st,
             HandlerReply(st.sessions, st.next, st.tags,
                          UnknownCommandResponse(packet, frame.isLittleEndian)),
             io)),
         io)

\* the loop without the validation of the packet length
ProcessFrameUnvalidated(c, buf, already, st, acc, io, isLittleEndian, packetLength) ==
  IF Len(buf) < packetLength
  THEN [buffer |-> buf, claimed |-> already, st |-> st, handled |-> acc,
        suspended |-> <<>>]
  ELSE HandlePacket(c, buf, already, st, acc, io,
         [isLittleEndian |-> isLittleEndian, packetLength |-> packetLength,
          packetBuffer |-> Slice(buf, 0, packetLength)],
         IF isLittleEndian THEN fromBufferLE(Slice(buf, 0, packetLength))
         ELSE fromBuffer(Slice(buf, 0, packetLength)))

\* the loop once the byte order and the packet length are read from the
\* header
ProcessFrame(c, buf, already, st, acc, io, isLittleEndian, packetLength) ==
  IF packetLength < HeaderLength \/ packetLength > MaxPacketLength
  THEN [buffer |-> <<>>, claimed |-> 0, st |-> st, handled |-> acc,
        suspended |-> <<>>]
  ELSE IF Len(buf) < packetLength
       THEN [buffer |-> buf, claimed |-> already, st |-> st, handled |-> acc,
             suspended |-> <<>>]
       ELSE HandlePacket(c, buf, already, st, acc, io,
              [isLittleEndian |-> isLittleEndian, packetLength |-> packetLength,
               packetBuffer |-> Slice(buf, 0, packetLength)],
              IF isLittleEndian THEN fromBufferLE(Slice(buf, 0, packetLength))
              ELSE fromBuffer(Slice(buf, 0, packetLength)))

\* the loop once the byte order is detected
ProcessHeader(c, buf, already, st, acc, io, isLittleEndian) ==
  ProcessFrame(c, buf, already, st, acc, io, isLittleEndian,
               HeaderLength + read16(isLittleEndian, buf, 2))

ProcessPackets(c, buf, already, st, acc, io) ==
  IF Len(buf) < HeaderLength
  THEN [buffer |-> buf, claimed |-> already, st |-> st, handled |-> acc,
        suspended |-> <<>>]
  ELSE ProcessHeader(c, buf, already, st, acc, io, DetectLittleEndian(buf))

RequestOf(rec) ==
  IF rec.isLittleEndian THEN fromBufferLE(rec.frame) ELSE fromBuffer(rec.frame)

ResponseOf(rec) ==
  IF rec.isLittleEndian THEN fromBufferLE(rec.out[1]) ELSE fromBuffer(rec.out[1])

\* handles whose UNREGISTER_SESSION a step answered with SUCCESS, and the
\* sessions a step created
NewlyUnregistered(recs) ==
  {RequestOf(recs[i]).sessionHandle : i \in
     {j \in 1..Len(recs) :
        /\ recs[j].known
        /\ RequestOf(recs[j]).command = CMD_UNREGISTER_SESSION
        /\ recs[j].out # <<>>
        /\ ResponseOf(recs[j]).status = STATUS_SUCCESS}}

NewlyOwned(recs) ==
  UNION {{<<h, recs[i].conn>> :
            h \in (DOMAIN recs[i].sessionsAfter) \ (DOMAIN recs[i].sessionsBefore)} :
         i \in 1..Len(recs)}

\* the sizes of the chunk a data event may deliver from the bytes on the wire
ChunkSizes(w) == {Len(w)} \cup {n \in {ChunkCut} : n < Len(w)}

\* an event loop that takes I/O and timer callbacks while continuations are
\* pending
CallbacksAnyTime == TRUE

\* a promise continuation runs before the event loop takes the next I/O or
\* timer callback: those wait until no continuation is pending
MicrotasksDrained == \A c \in Conns : susp[c] = <<>>

MaxReadsPerFrame == 1

CipReadsPerFrame == 2

\* how many values of Math.random a step may consume: one tag read per frame
\* in the runs of Profiles, up to CipReadsPerFrame in the "cip" runs, whose
\* requests embed several reads
ReadsPerFrame(p) == IF p = "cip" THEN CipReadsPerFrame ELSE MaxReadsPerFrame

Init ==
  /\ profile \in Profiles
  /\ conn = [c \in Conns |-> "none"]
  /\ localAddress = [c \in Conns |-> <<0, 0, 0, 0>>]
  /\ wire = [c \in Conns |-> <<>>]
  /\ buffer = [c \in Conns |-> <<>>]
  /\ susp = [c \in Conns |-> <<>>]
  /\ sessions = <<>>
  /\ nextSessionHandle = 1
  /\ tags = [i \in 1..NumTags |-> InitialTagValue]
  /\ now = 0
  /\ handled = <<>>
  /\ claimed = [c \in Conns |-> 0]
  /\ unregistered = {}
  /\ owner = {}
  /\ nsent = 0
  /\ ticks = 0
  /\ stream = [c \in Conns |-> <<>>]
  /\ log = [c \in Conns |-> <<>>]

\* net.Server 'connection': handleConnection(socket); connection c is the
\* c-th one accepted
Connect(c, addr) ==
  /\ MicrotasksDrained
  /\ conn[c] = "none"
  /\ \A b \in Conns : b < c => conn[b] # "none"
  /\ conn' = [conn EXCEPT ![c] = "open"]
  /\ localAddress' = [localAddress EXCEPT ![c] = addr]
  /\ handled' = <<>>
  /\ UNCHANGED <<profile, wire, buffer, susp, sessions, nextSessionHandle, tags, now,
                 claimed, unregistered, owner, nsent, ticks, stream, log>>

\* a client writes one frame to its socket
ClientSend(c, f) ==
  /\ conn[c] = "open"
  /\ nsent < MaxFrames
  /\ wire' = [wire EXCEPT ![c] = @ \o f]
  /\ nsent' = nsent + 1
  /\ handled' = <<>>
  /\ UNCHANGED <<profile, conn, localAddress, buffer, susp, sessions,
                 nextSessionHandle, tags, now, claimed, unregistered, owner, ticks,
                 stream, log>>

\* what a run of the packet loop leaves behind
AfterLoop(c, res, remaining) ==
  /\ buffer' = [buffer EXCEPT ![c] = res.buffer]
  /\ claimed' = [claimed EXCEPT ![c] = res.claimed]
  /\ susp' = [susp EXCEPT ![c] = remaining \o res.suspended]
  /\ sessions' = res.st.sessions
  /\ nextSessionHandle' = res.st.next
  /\ tags' = res.st.tags
  /\ handled' = res.handled
  /\ unregistered' = unregistered \cup NewlyUnregistered(res.handled)
  /\ owner' = owner \cup NewlyOwned(res.handled)
  /\ log' = IF Recorded(profile) THEN [log EXCEPT ![c] = @ \o res.handled] ELSE log

\* socket 'data': append the chunk and run the packet loop
DataEvent(c, n) ==
  /\ MicrotasksDrained
  /\ conn[c] = "open"
  /\ n \in ChunkSizes(wire[c])
  /\ n > 0
  /\ \E rnd \in [1..ReadsPerFrame(profile) -> TagValues] :
       AfterLoop(c,
         ProcessPackets(c, buffer[c] \o SubSeq(wire[c], 1, n), claimed[c],
           [sessions |-> sessions, next |-> nextSessionHandle, tags |-> tags], <<>>,
           [now |-> now, rnd |-> rnd, localAddress |-> localAddress[c],
            unregistered |-> unregistered]),
         susp[c])
  /\ wire' = [wire EXCEPT ![c] = SubSeq(@, n + 1, Len(@))]
  /\ stream' = IF Recorded(profile)
               THEN [stream EXCEPT ![c] = @ \o SubSeq(wire[c], 1, n)] ELSE stream
  /\ UNCHANGED <<profile, conn, localAddress, now, nsent, ticks>>

\* the buffer the continuation of iteration it leaves: the packet sliced
\* off, or nothing after the catch block
ResumedBuffer(buf, it) ==
  IF it.rejected THEN <<>> ELSE SliceFrom(buf, it.packetLength)

\* the continuation of `await handler(...)`: slice the packet off (or clear
\* the buffer in the catch block) and go round the loop again
Resume(c) ==
  /\ susp[c] # <<>>
  /\ \E rnd \in [1..ReadsPerFrame(profile) -> TagValues] :
       AfterLoop(c,
         ProcessPackets(c, ResumedBuffer(buffer[c], Head(susp[c])),
           Max(0, claimed[c]
                    - (Len(buffer[c]) - Len(ResumedBuffer(buffer[c], Head(susp[c]))))),
           [sessions |-> sessions, next |-> nextSessionHandle, tags |-> tags], <<>>,
           [now |-> now, rnd |-> rnd, localAddress |-> localAddress[c],
            unregistered |-> unregistered]),
         Tail(susp[c]))
  /\ UNCHANGED <<profile, conn, localAddress, wire, now, nsent, ticks, stream>>

\* socket 'close': the handlers log and delete the socket's clientEndianness
\* entry
Close(c) ==
  /\ MicrotasksDrained
  /\ conn[c] = "open"
  /\ conn' = [conn EXCEPT ![c] = "closed"]
  /\ wire' = [wire EXCEPT ![c] = <<>>]
  /\ buffer' = [buffer EXCEPT ![c] = <<>>]
  /\ claimed' = [claimed EXCEPT ![c] = 0]
  /\ handled' = <<>>
  /\ UNCHANGED <<profile, localAddress, susp, sessions, nextSessionHandle, tags, now,
                 unregistered, owner, nsent, ticks, stream, log>>

\* time passes
Tick(d) ==
  /\ ticks < MaxTicks
  /\ ticks' = ticks + 1
  /\ now' = now + d
  /\ handled' = <<>>
  /\ UNCHANGED <<profile, conn, localAddress, wire, buffer, susp, sessions,
                 nextSessionHandle, tags, claimed, unregistered, owner, nsent,
                 stream, log>>

\* the setInterval callback of EthernetIPServer.start
Sweep ==
  /\ MicrotasksDrained
  /\ now >= SweepIntervalMs
  /\ sessions' = cleanupInactive(sessions, IdleTimeoutMs, now)
  /\ handled' = <<>>
  /\ UNCHANGED <<profile, conn, localAddress, wire, buffer, susp, nextSessionHandle,
                 tags, now, claimed, unregistered, owner, nsent, ticks, stream, log>>

Next ==
  \/ \E c \in Conns, addr \in LocalAddresses(profile) : Connect(c, addr)
  \/ \E c \in Conns : \E f \in ProfileFrames(profile) : ClientSend(c, f)
  \/ \E c \in Conns : \E n \in 1..Len(wire[c]) : DataEvent(c, n)
  \/ \E c \in Conns : Resume(c)
  \/ \E c \in Conns : Close(c)
  \/ \E d \in TimeSteps(profile) : Tick(d)
  \/ Sweep

Spec == Init /\ [][Next]_vars

(***************************************************************************)
(* A server whose first client has registered session 1 at time 0 and     *)
(* then sends on: the "sweep" runs, in which the clock moves and the idle  *)
(* sweep runs while that session is in the registry.  The frames sent are  *)
(* counted from here.                                                      *)
(***************************************************************************)
InitSweep ==
  /\ profile = "sweep"
  /\ conn = [c \in Conns |-> IF c = 1 THEN "open" ELSE "none"]
  /\ localAddress = [c \in Conns |-> IF c = 1 THEN <<127, 0, 0, 1>> ELSE <<0, 0, 0, 0>>]
  /\ wire = [c \in Conns |-> <<>>]
  /\ buffer = [c \in Conns |-> <<>>]
  /\ susp = [c \in Conns |-> <<>>]
  /\ sessions = createSession(<<>>, 1, 0).sessions
  /\ nextSessionHandle = createSession(<<>>, 1, 0).next
  /\ tags = [i \in 1..NumTags |-> InitialTagValue]
  /\ now = 0
  /\ handled = <<>>
  /\ claimed = [c \in Conns |-> 0]
  /\ unregistered = {}
  /\ owner = {<<1, 1>>}
  /\ nsent = 0
  /\ ticks = 0
  /\ stream = [c \in Conns |-> <<>>]
  /\ log = [c \in Conns |-> <<>>]

\* the steps of that client's connection, the clock and the sweep
NextSweep ==
  \/ \E f \in ProfileFrames(profile) : ClientSend(1, f)
  \/ \E n \in 1..Len(wire[1]) : DataEvent(1, n)
  \/ Resume(1)
  \/ \E d \in TimeSteps(profile) : Tick(d)
  \/ Sweep

SpecSweep == InitSweep /\ [][NextSweep]_vars

(***************************************************************************)
(* One accepted connection, on the loopback or on a LAN address, whose     *)
(* client sends sessionless frames (the "stream" runs), encodes every      *)
(* frame little-endian (the "framing" runs) or sends a header that         *)
(* declares more than a frame may hold (the "discard" runs); all keep the  *)
(* bytes delivered and the frames dispatched.                              *)
(***************************************************************************)
InitStream ==
  /\ profile \in {"stream", "framing", "discard"}
  /\ conn = [c \in Conns |-> IF c = 1 THEN "open" ELSE "none"]
  /\ \E addr \in {<<127, 0, 0, 1>>, <<192, 168, 1, 10>>} :
       localAddress = [c \in Conns |-> IF c = 1 THEN addr ELSE <<0, 0, 0, 0>>]
  /\ wire = [c \in Conns |-> <<>>]
  /\ buffer = [c \in Conns |-> <<>>]
  /\ susp = [c \in Conns |-> <<>>]
  /\ sessions = <<>>
  /\ nextSessionHandle = 1
  /\ tags = [i \in 1..NumTags |-> InitialTagValue]
  /\ now = 0
  /\ handled = <<>>
  /\ claimed = [c \in Conns |-> 0]
  /\ unregistered = {}
  /\ owner = {}
  /\ nsent = 0
  /\ ticks = 0
  /\ stream = [c \in Conns |-> <<>>]
  /\ log = [c \in Conns |-> <<>>]

NextStream ==
  \/ \E f \in ProfileFrames(profile) : ClientSend(1, f)
  \/ \E n \in 1..Len(wire[1]) : DataEvent(1, n)
  \/ Resume(1)

SpecStream == InitStream /\ [][NextStream]_vars

(***************************************************************************)
(* The session counter over its whole range.  nextSessionHandle is a       *)
(* JavaScript number, exact up to 2^53; it is kept here as [hi, lo] with   *)
(* value hi * 65536 + lo and 0 <= lo < 65536, so that it can pass          *)
(* 0xFFFFFFFF.  The registry is the one of SessionManager, with such       *)
(* numbers as handles.                                                     *)
(***************************************************************************)
MaxCreates == 5

WideNumber(hi, lo) == [hi |-> hi, lo |-> lo]

\* nextSessionHandle++
WideNextHandleAfter(next) ==
  IF next.lo = 65535 THEN WideNumber(next.hi + 1, 0) ELSE WideNumber(next.hi, next.lo + 1)

\* value <= 0xFFFFFFFF, the range writeUInt32BE and writeUInt32LE accept
WideFitsUInt32(v) == v.hi < 65536

WideLess(a, b) == a.hi < b.hi \/ (a.hi = b.hi /\ a.lo < b.lo)

createSessionWide(registry, next, time) ==
  [handle   |-> next,
   next     |-> WideNextHandleAfter(next),
   sessions |-> [h \in (DOMAIN registry) \cup {next} |->
                   IF h = next
                   THEN [createdAt |-> time, lastActivity |-> time]
                   ELSE registry[h]]]

\* the session-handle field response.toBuffer() writes in
\* handleRegisterSession, <<>> when writeUInt32BE throws its RangeError
RegisterHandleBytes(handle) ==
  IF WideFitsUInt32(handle)
  THEN writeUInt16BE(handle.hi) \o writeUInt16BE(handle.lo)
  ELSE <<>>

\* the counter of a new server, one about to carry into the upper half, and
\* one three registrations below 0xFFFFFFFF + 1
StartCounters == {WideNumber(0, 1), WideNumber(0, 65534), WideNumber(65535, 65533)}

InitHandles ==
  /\ profile = "handles"
  /\ conn = [c \in Conns |-> "none"]
  /\ localAddress = [c \in Conns |-> <<0, 0, 0, 0>>]
  /\ wire = [c \in Conns |-> <<>>]
  /\ buffer = [c \in Conns |-> <<>>]
  /\ susp = [c \in Conns |-> <<>>]
  /\ sessions = <<>>
  /\ nextSessionHandle \in StartCounters
  /\ tags = [i \in 1..NumTags |-> InitialTagValue]
  /\ now = 0
  /\ handled = <<>>
  /\ claimed = [c \in Conns |-> 0]
  /\ unregistered = {}
  /\ owner = {}
  /\ nsent = 0
  /\ ticks = 0
  /\ stream = [c \in Conns |-> <<>>]
  /\ log = [c \in Conns |-> <<>>]

\* handleRegisterSession from sessionManager.createSession() to
\* response.toBuffer(); handled keeps every call
RegisterWide ==
  /\ nsent < MaxCreates
  /\ sessions' = createSessionWide(sessions, nextSessionHandle, now).sessions
  /\ nextSessionHandle' = createSessionWide(sessions, nextSessionHandle, now).next
  /\ handled' = Append(handled,
                  [handle     |-> createSessionWide(sessions, nextSessionHandle, now).handle,
                   nextBefore |-> nextSessionHandle,
                   liveBefore |-> DOMAIN sessions,
                   out        |-> RegisterHandleBytes(
                                    createSessionWide(sessions, nextSessionHandle, now).handle)])
  /\ nsent' = nsent + 1
  /\ UNCHANGED <<profile, conn, localAddress, wire, buffer, susp, tags, now, claimed,
                 unregistered, owner, ticks, stream, log>>

\* handleUnregisterSession on a live handle: sessionManager.removeSession
UnregisterWide(h) ==
  /\ h \in DOMAIN sessions
  /\ sessions' = removeSession(sessions, h)
  /\ UNCHANGED <<profile, conn, localAddress, wire, buffer, susp, nextSessionHandle,
                 tags, now, handled, claimed, unregistered, owner, nsent, ticks,
                 stream, log>>

NextHandles ==
  \/ RegisterWide
  \/ \E h \in DOMAIN sessions : UnregisterWide(h)

SpecHandles == InitHandles /\ [][NextHandles]_vars

(***************************************************************************)
(* The packet codec on its own: a legal packet is encoded in one byte      *)
(* order (toBuffer, or toBufferLE with the packet's own data) and the      *)
(* frame is decoded in the same order (fromBuffer, fromBufferLE).  handled *)
(* holds the packet and its byte order, wire[1] the frame, log[1] the      *)
(* decoded packet; nsent counts the two steps.                             *)
(***************************************************************************)
\* the largest payload of a frame the data handler accepts
MaxPayload == MaxPacketLength - HeaderLength

\* payload sizes: none, one byte, both sides of the one-byte limit of the
\* length field, and the largest payload of a 65535-byte frame
PayloadSizes == {0, 1, 255, 256, MaxPayload}

PayloadOf(n) == [i \in 1..n |-> (7 * i) % 256]

\* 32-bit fields: 0, 1, 2^31 - 1, 2^31 and 2^32 - 1
Words == {0, 1, 2147483647,
          readUInt32BE(<<128, 0, 0, 0>>, 0), readUInt32BE(<<255, 255, 255, 255>>, 0)}

LegalPackets ==
  {[command       |-> cmd,
    length        |-> n,
    sessionHandle |-> h,
    status        |-> st,
    senderContext |-> ctx,
    options       |-> opt,
    data          |-> PayloadOf(n)] :
     cmd \in {CMD_NOP, CMD_SEND_RR_DATA, 65535}, n \in PayloadSizes, h \in Words,
     st \in {0, STATUS_INVALID_SESSION_HANDLE}, ctx \in {Zeros(8), OtherContext},
     opt \in {0, readUInt32BE(<<1, 2, 3, 4>>, 0)}}

InitCodec ==
  /\ profile = "codec"
  /\ conn = [c \in Conns |-> "none"]
  /\ localAddress = [c \in Conns |-> <<0, 0, 0, 0>>]
  /\ wire = [c \in Conns |-> <<>>]
  /\ buffer = [c \in Conns |-> <<>>]
  /\ susp = [c \in Conns |-> <<>>]
  /\ sessions = <<>>
  /\ nextSessionHandle = 1
  /\ tags = [i \in 1..NumTags |-> InitialTagValue]
  /\ now = 0
  /\ \E p \in LegalPackets, le \in BOOLEAN :
       handled = <<[packet |-> p, isLittleEndian |-> le]>>
  /\ claimed = [c \in Conns |-> 0]
  /\ unregistered = {}
  /\ owner = {}
  /\ nsent = 0
  /\ ticks = 0
  /\ stream = [c \in Conns |-> <<>>]
  /\ log = [c \in Conns |-> <<>>]

EncodePacket ==
  /\ nsent = 0
  /\ wire' = [wire EXCEPT ![1] =
                IF handled[1].isLittleEndian
                THEN toBufferLE(handled[1].packet, handled[1].packet.data)
                ELSE toBuffer(handled[1].packet)]
  /\ nsent' = 1
  /\ UNCHANGED <<profile, conn, localAddress, buffer, susp, sessions, nextSessionHandle,
                 tags, now, handled, claimed, unregistered, owner, ticks, stream, log>>

DecodePacket ==
  /\ nsent = 1
  /\ Len(wire[1]) >= HeaderLength
  /\ log' = [log EXCEPT ![1] =
               <<IF handled[1].isLittleEndian
                 THEN fromBufferLE(wire[1])
                 ELSE fromBuffer(wire[1])>>]
  /\ nsent' = 2
  /\ UNCHANGED <<profile, conn, localAddress, wire, buffer, susp, sessions,
                 nextSessionHandle, tags, now, handled, claimed, unregistered, owner,
                 ticks, stream>>

NextCodec ==
  \/ EncodePacket
  \/ DecodePacket

SpecCodec == InitCodec /\ [][NextCodec]_vars

(***************************************************************************)
(* CIPPath and CIPMessage as functions of their input: a byte string is    *)
(* either parsed as a path, or taken as a tag name from which a symbolic   *)
(* path is built, put in a Read_Tag request with toBuffer and read back    *)
(* with fromBuffer.  handled[1] is the input, wire[1] the path built,      *)
(* buffer[1] the request encoded, log[1] the result of the parse, and      *)
(* nsent the step reached.                                                 *)
(***************************************************************************)
MaxNameLen == 3

\* 'A', '1'
NameBytes == {65, 49}

TagNames == UNION {[1..n -> NameBytes] : n \in 0..MaxNameLen}

\* a pad, a count, a 16-bit logical instance segment, 'A', a symbolic segment
PathBytes == {0, 1, 37, 65, 145}

RawPaths == UNION {[1..n -> PathBytes] : n \in 0..MaxNameLen}

\* no request data, and the element count of a Read_Tag
RequestData == {<<>>, <<1, 0>>}

InitPath ==
  /\ profile = "path"
  /\ conn = [c \in Conns |-> "none"]
  /\ localAddress = [c \in Conns |-> <<0, 0, 0, 0>>]
  /\ wire = [c \in Conns |-> <<>>]
  /\ buffer = [c \in Conns |-> <<>>]
  /\ susp = [c \in Conns |-> <<>>]
  /\ sessions = <<>>
  /\ nextSessionHandle = 1
  /\ tags = [i \in 1..NumTags |-> InitialTagValue]
  /\ now = 0
  /\ \E b \in TagNames \cup RawPaths, d \in RequestData :
       handled = <<[bytes |-> b, data |-> d]>>
  /\ claimed = [c \in Conns |-> 0]
  /\ unregistered = {}
  /\ owner = {}
  /\ nsent = 0
  /\ ticks = 0
  /\ stream = [c \in Conns |-> <<>>]
  /\ log = [c \in Conns |-> <<>>]

\* CIPPath.parsePath(bytes)
ParsePath ==
  /\ nsent = 0
  /\ log' = [log EXCEPT ![1] = <<parsePath(handled[1].bytes)>>]
  /\ nsent' = 4
  /\ UNCHANGED <<profile, conn, localAddress, wire, buffer, susp, sessions,
                 nextSessionHandle, tags, now, handled, claimed, unregistered, owner,
                 ticks, stream>>

\* CIPPath.buildSymbolicPath(name), for a name of ASCII characters
BuildPath ==
  /\ nsent = 0
  /\ \A i \in 1..Len(handled[1].bytes) : handled[1].bytes[i] \in 1..127
  /\ wire' = [wire EXCEPT ![1] = buildSymbolicPath(handled[1].bytes)]
  /\ nsent' = 1
  /\ UNCHANGED <<profile, conn, localAddress, buffer, susp, sessions, nextSessionHandle,
                 tags, now, handled, claimed, unregistered, owner, ticks, stream, log>>

\* new CIPMessage(0x4C, path, data).toBuffer()
EncodeRequest ==
  /\ nsent = 1
  /\ buffer' = [buffer EXCEPT ![1] =
                  cipToBuffer([service |-> 76, path |-> wire[1],
                               data |-> handled[1].data])]
  /\ nsent' = 2
  /\ UNCHANGED <<profile, conn, localAddress, wire, susp, sessions, nextSessionHandle,
                 tags, now, handled, claimed, unregistered, owner, ticks, stream, log>>

\* CIPMessage.fromBuffer of the request encoded
DecodeRequest ==
  /\ nsent = 2
  /\ log' = [log EXCEPT ![1] = <<cipFromBuffer(buffer[1])>>]
  /\ nsent' = 3
  /\ UNCHANGED <<profile, conn, localAddress, wire, buffer, susp, sessions,
                 nextSessionHandle, tags, now, handled, claimed, unregistered, owner,
                 ticks, stream>>

NextPath ==
  \/ ParsePath
  \/ BuildPath
  \/ EncodeRequest
  \/ DecodeRequest

SpecPath == InitPath /\ [][NextPath]_vars

(***************************************************************************)
(* The CIP layer as a function of the request: one SEND_RR_DATA frame, on  *)
(* a connection that has registered session 1, delivered whole.            *)
(***************************************************************************)
\* an ANSI extended symbolic segment, padded to a word boundary
SymbolicSegment(name) ==
  <<145, Len(name)>> \o name \o (IF Len(name) % 2 = 1 THEN <<0>> ELSE <<>>)

\* a CIP request: service, path length in words, path, data
CipRequest(service, path, data) == <<service, Len(path) \div 2>> \o path \o data

\* Read_Tag (0x4C) with the given path, one element
ReadTagRequest(path) == CipRequest(76, path, <<1, 0>>)

\* Get_Attribute_Single (0x0E)
GetAttributeSingleRequest(path) == CipRequest(14, path, <<>>)

\* Get_Attribute_All (0x01)
GetAttributeAllRequest(path) == CipRequest(1, path, <<>>)

\* Unconnected Send (0x52) to the Connection Manager: priority/tick, timeout
\* ticks, the size of the embedded message, the embedded message
UnconnectedSendRequest(embedded) ==
  CipRequest(82, <<32, 6, 36, 1>>, <<10, 5>> \o writeUInt16LE(Len(embedded)) \o embedded)

\* the offset of sub-request i (1-based) of a Multiple Service Packet whose
\* sub-requests follow the offset table back to back
RECURSIVE RequestOffset(_, _)
RequestOffset(requests, i) ==
  IF i = 1 THEN 2 + 2 * Len(requests)
  ELSE RequestOffset(requests, i - 1) + Len(requests[i - 1])

\* Multiple Service Packet (0x0A) to the Message Router
MultipleServiceRequest(requests) ==
  CipRequest(10, <<32, 2, 36, 1>>,
    writeUInt16LE(Len(requests))
      \o Flatten([i \in 1..Len(requests) |-> writeUInt16LE(RequestOffset(requests, i))])
      \o Flatten(requests))

\* a path on which parsePath throws: a 16-bit logical segment one byte short
ThrowingPath == <<0, 37, 0, 1>>

\* 'Tag_2' spelled in unknown and logical segments, after a class segment
TagTwoAsBytes == <<32, 107>> \o TagAddress(2) \o <<0>>

\* '1a2' after a class segment
DigitsAsBytes == <<32, 107, 49, 97, 50, 0>>

\* 'Nope', 'X2': names of no tag
NameNope == <<78, 111, 112, 101>>

NameX2 == <<88, 50>>

ReadRequests ==
  {CipReadSensor1A,
   ReadTagRequest(SymbolicSegment(TagName(2))),
   ReadTagRequest(SymbolicSegment(TagAddress(2))),
   ReadTagRequest(SymbolicSegment(NameX2)),
   ReadTagRequest(SymbolicSegment(NameNope)),
   ReadTagRequest(TagTwoAsBytes),
   ReadTagRequest(DigitsAsBytes),
   ReadTagRequest(ThrowingPath),
   ReadTagRequest(<<>>),
   CipRequest(204, SymbolicSegment(TagName(1)), <<1, 0>>)}

AttributeRequests ==
  {CipGetSessionCount,
   GetAttributeSingleRequest(<<32, 1, 36, 1, 48, 1>>),
   GetAttributeSingleRequest(<<32, 1, 36, 1, 48, 7>>),
   GetAttributeSingleRequest(<<32, 1, 36, 0, 48, 99>>),
   GetAttributeSingleRequest(<<32, 1, 36, 2, 48, 1>>),
   GetAttributeSingleRequest(<<32, 1, 36, 2, 48, 99>>),
   GetAttributeSingleRequest(<<32, 1>>),
   CipRequest(14, <<32, 1, 36, 1>>, <<3, 0>>),
   GetAttributeSingleRequest(<<32, 2, 36, 1, 48, 1>>),
   GetAttributeSingleRequest(<<32, 2, 36, 1, 48, 4>>),
   GetAttributeSingleRequest(<<32, 2, 36, 5, 48, 1>>),
   GetAttributeSingleRequest(<<32, 6, 36, 1, 48, 9>>),
   GetAttributeSingleRequest(<<32, 6, 36, 3, 48, 1>>),
   GetAttributeSingleRequest(<<33, 0, 1, 0, 37, 0, 1, 0, 49, 0, 2, 0>>),
   GetAttributeSingleRequest(<<36, 1>>),
   GetAttributeSingleRequest(<<>>),
   GetAttributeSingleRequest(ThrowingPath),
   GetAttributeSingleRequest(SymbolicSegment(TagName(1))),
   GetAttributeSingleRequest(<<32, 107>> \o SymbolicSegment(TagName(1))),
   GetAttributeSingleRequest(<<32, 107>> \o SymbolicSegment(NameNope)),
   GetAttributeAllRequest(<<32, 1, 36, 1>>),
   GetAttributeAllRequest(<<32, 2, 36, 1>>),
   GetAttributeAllRequest(ThrowingPath),
   CipReset}

\* Unconnected Send around Reset, nested n deep
RECURSIVE NestedSend(_)
NestedSend(n) == IF n = 0 THEN CipReset ELSE UnconnectedSendRequest(NestedSend(n - 1))

\* a Multiple Service Packet whose offset table is given, not computed
MultipleServiceRaw(count, offsets, rest) ==
  CipRequest(10, <<32, 2, 36, 1>>,
    writeUInt16LE(count) \o Flatten([i \in 1..Len(offsets) |-> writeUInt16LE(offsets[i])])
      \o rest)

EmbeddingRequests ==
  {UnconnectedSendRequest(CipReadSensor1A),
   UnconnectedSendRequest(ReadTagRequest(SymbolicSegment(NameNope))),
   UnconnectedSendRequest(CipGetSessionCount),
   UnconnectedSendRequest(CipReset),
   UnconnectedSendRequest(GetAttributeAllRequest(<<32, 1, 36, 1>>)),
   UnconnectedSendRequest(GetAttributeAllRequest(ThrowingPath)),
   UnconnectedSendRequest(MultipleServiceRequest(<<CipReadSensor1A, CipReset>>)),
   UnconnectedSendRequest(<<76>>),
   UnconnectedSendRequest(<<76, 5, 145, 8>>),
   CipRequest(82, <<32, 6, 36, 1>>, <<10, 5, 2>>),
   CipRequest(82, <<32, 6, 36, 1>>, <<10, 5, 9, 0, 5, 0>>),
   NestedSend(2),
   NestedSend(5),
   MultipleServiceRequest(<<CipReadSensor1A,
                            ReadTagRequest(SymbolicSegment(TagName(2)))>>),
   MultipleServiceRequest(<<CipReadSensor1A, CipReadSensor1A>>),
   MultipleServiceRequest(<<CipGetSessionCount>>),
   MultipleServiceRequest(<<CipReset, <<5>>, CipReadSensor1A>>),
   MultipleServiceRequest(<<<<76, 5, 145, 8>>, CipGetSessionCount>>),
   MultipleServiceRequest(<<GetAttributeAllRequest(ThrowingPath), CipReset,
                            GetAttributeAllRequest(<<32, 1, 36, 1>>)>>),
   MultipleServiceRequest(<<UnconnectedSendRequest(CipReadSensor1A),
                            MultipleServiceRequest(<<CipReset, CipReadSensor1A>>)>>),
   MultipleServiceRequest(<<>>),
   MultipleServiceRaw(2, <<6, 40>>, CipReset),
   MultipleServiceRaw(2, <<8, 6>>, CipReset \o CipReset),
   MultipleServiceRaw(3, <<8>>, <<>>),
   MultipleServiceRaw(1, <<0>>, CipReset),
   MultipleServiceRaw(10, <<0, 22, 22, 22, 22, 22, 22, 22, 22, 22>>, <<>>),
   CipRequest(10, <<32, 2, 36, 1>>, <<1>>)}

CipRequests == ReadRequests \cup AttributeRequests \cup EmbeddingRequests

\* a CPF payload given piece by piece: interface handle 0, timeout 5, the
\* item count and the bytes of the items
CpfRaw(isLittleEndian, itemCount, items) ==
  write32(isLittleEndian, 0) \o write16(isLittleEndian, 5)
    \o write16(isLittleEndian, itemCount) \o items

\* one CPF item: type, declared length, bytes
CpfItem(isLittleEndian, type, length, bytes) ==
  write16(isLittleEndian, type) \o write16(isLittleEndian, length) \o bytes

\* SEND_RR_DATA payloads that are not a CPF list around one CIP request
OddPayloads(isLittleEndian) ==
  {<<>>,
   CpfRaw(isLittleEndian, 0, <<>>),
   CpfRaw(isLittleEndian, 2,
          CpfItem(isLittleEndian, 0, 0, <<>>) \o CpfItem(isLittleEndian, 0, 0, <<>>)),
   CpfRaw(isLittleEndian, 2,
          CpfItem(isLittleEndian, 0, 6, Zeros(6)) \o write16(isLittleEndian, 178)),
   CpfRaw(isLittleEndian, 2,
          CpfItem(isLittleEndian, 0, 0, <<>>)
            \o CpfItem(isLittleEndian, 178, Len(CipReadSensor1A) + 4, CipReadSensor1A)),
   CpfRaw(isLittleEndian, 2,
          CpfItem(isLittleEndian, 0, 0, <<>>)
            \o CpfItem(isLittleEndian, 178, 12, <<76, 5, 145, 8>>)),
   CpfRaw(isLittleEndian, 2,
          CpfItem(isLittleEndian, 0, 0, <<>>)
            \o CpfItem(isLittleEndian, 178, 1, <<76>>)),
   CpfRaw(isLittleEndian, 2,
          CpfItem(isLittleEndian, 0, 0, <<>>)
            \o CpfItem(isLittleEndian, 178, 4, <<76, 5, 145, 8>>)),
   CpfRaw(isLittleEndian, 2,
          CpfItem(isLittleEndian, 178, Len(CipReset), CipReset)
            \o CpfItem(isLittleEndian, 178, Len(CipGetSessionCount), CipGetSessionCount))}

\* the SEND_RR_DATA frames of the "cip" runs, all on session handle 1
CipFrames ==
  {SendRRData(le, 1, cip) : le \in BOOLEAN, cip \in CipRequests}
    \cup UNION {{ClientFrame(le, CMD_SEND_RR_DATA, Len(payload), 1, OtherContext, payload) :
                   payload \in OddPayloads(le)} : le \in BOOLEAN}

\* a server on which the client of connection 1 has registered session 1 and
\* then written one frame of CipFrames
InitCip ==
  /\ profile = "cip"
  /\ conn = [c \in Conns |-> IF c = 1 THEN "open" ELSE "none"]
  /\ localAddress = [c \in Conns |-> IF c = 1 THEN <<127, 0, 0, 1>> ELSE <<0, 0, 0, 0>>]
  /\ wire \in {[c \in Conns |-> IF c = 1 THEN f ELSE <<>>] : f \in CipFrames}
  /\ buffer = [c \in Conns |-> <<>>]
  /\ susp = [c \in Conns |-> <<>>]
  /\ sessions = createSession(<<>>, 1, 0).sessions
  /\ nextSessionHandle = createSession(<<>>, 1, 0).next
  /\ tags = [i \in 1..NumTags |-> InitialTagValue]
  /\ now = 0
  /\ handled = <<>>
  /\ claimed = [c \in Conns |-> 0]
  /\ unregistered = {}
  /\ owner = {<<1, 1>>}
  /\ nsent = 2
  /\ ticks = 0
  /\ stream = [c \in Conns |-> <<>>]
  /\ log = [c \in Conns |-> <<>>]

NextCip ==
  \/ DataEvent(1, Len(wire[1]))
  \/ Resume(1)

SpecCip == InitCip /\ [][NextCip]_vars

(***************************************************************************)
(* Properties.  Handled is the set of frames the latest step handled; a    *)
(* property over it holds for every frame ever handled, because every step *)
(* that handles a frame records it there.                                  *)
(***************************************************************************)
Handled == {handled[i] : i \in 1..Len(handled)}

Answered == {rec \in Handled : rec.out # <<>>}

RegisteredBy(rec) ==
  /\ rec.known
  /\ RequestOf(rec).command = CMD_REGISTER_SESSION
  /\ ResponseOf(rec).status = STATUS_SUCCESS

\* C1: every response echoes the request's command and 8 sender-context
\* bytes with options 0, and carries the request's session handle, except a
\* successful REGISTER_SESSION, which carries the new nonzero handle.
C1_ResponseEchoesRequest ==
  \A rec \in Answered :
    LET req == RequestOf(rec)
        resp == ResponseOf(rec)
    IN  /\ resp.command = req.command
        /\ resp.senderContext = req.senderContext
        /\ resp.options = 0
        /\ IF RegisteredBy(rec)
           THEN /\ resp.sessionHandle # 0
                /\ resp.sessionHandle \notin DOMAIN rec.sessionsBefore
                /\ resp.sessionHandle \in DOMAIN rec.sessionsAfter
           ELSE resp.sessionHandle = req.sessionHandle

\* one chunk held a frame answered with its own handle 1 echoed and then a
\* REGISTER_SESSION answered with a new handle
C1_Witness ==
  /\ Len(handled) = 2
  /\ handled[1].out # <<>> /\ handled[2].out # <<>>
  /\ ~RegisteredBy(handled[1])
  /\ RequestOf(handled[1]).sessionHandle = 1
  /\ ResponseOf(handled[1]).senderContext = PycommContext
  /\ RegisteredBy(handled[2])
  /\ ResponseOf(handled[2]).sessionHandle # RequestOf(handled[2]).sessionHandle

\* C2: once UNREGISTER_SESSION for a handle was answered SUCCESS, the handle
\* is never live again, and every later SEND_RR_DATA or UNREGISTER_SESSION
\* carrying it, on any connection, is answered INVALID_SESSION_HANDLE.
C2_UnregisteredStaysDead ==
  /\ unregistered \cap DOMAIN sessions = {}
  /\ \A rec \in Handled :
       (/\ rec.known
        /\ RequestOf(rec).command \in {CMD_SEND_RR_DATA, CMD_UNREGISTER_SESSION}
        /\ rec.gone)
       => /\ rec.out # <<>>
          /\ ResponseOf(rec).status = STATUS_INVALID_SESSION_HANDLE

\* a SEND_RR_DATA carrying an unregistered handle was handled after a further
\* registration
C2_Witness ==
  \E rec \in Handled :
    /\ rec.known
    /\ RequestOf(rec).command = CMD_SEND_RR_DATA
    /\ rec.gone
    /\ nextSessionHandle > 1

\* C3: a SEND_RR_DATA whose handle is not live is answered
\* INVALID_SESSION_HANDLE with an empty payload, and changes neither the
\* tags nor the sessions.
C3_DeadHandleRejected ==
  \A rec \in Handled :
    (/\ rec.known
     /\ RequestOf(rec).command = CMD_SEND_RR_DATA
     /\ RequestOf(rec).sessionHandle \notin DOMAIN rec.sessionsBefore)
    => /\ rec.out # <<>>
       /\ ResponseOf(rec).status = STATUS_INVALID_SESSION_HANDLE
       /\ ResponseOf(rec).length = 0
       /\ Len(rec.out[1]) = HeaderLength
       /\ rec.tagsAfter = rec.tagsBefore
       /\ rec.sessionsAfter = rec.sessionsBefore

\* a Read_Tag request arrived in a SEND_RR_DATA with a handle that is not
\* live, while another session was
C3_Witness ==
  \E rec \in Handled :
    /\ rec.known
    /\ RequestOf(rec).command = CMD_SEND_RR_DATA
    /\ RequestOf(rec).sessionHandle \notin DOMAIN rec.sessionsBefore
    /\ RequestOf(rec).length > 0
    /\ DOMAIN rec.sessionsBefore # {}

\* C4: when a connection has closed, no session registered over it is left
\* in the registry.
C4_CloseRemovesSessions ==
  \A hc \in owner : conn[hc[2]] = "closed" => hc[1] \notin DOMAIN sessions

C6_RegisterNeedsVersion ==
  \A rec \in Handled :
    (rec.known /\ RequestOf(rec).command = CMD_REGISTER_SESSION)
    => LET data == RequestOf(rec).data
           versionOne == /\ Len(data) >= 2
                         /\ read16(rec.isLittleEndian, data, 0) = 1
       IN  IF versionOne
           THEN rec.out # <<>> /\ ResponseOf(rec).status = STATUS_SUCCESS
           ELSE /\ rec.out # <<>>
                /\ ResponseOf(rec).status = STATUS_UNSUPPORTED_PROTOCOL
                /\ rec.sessionsAfter = rec.sessionsBefore

\* the 28 bytes 0065 0004 00000001 00000000 5f7079636f6d6d5f 00000000 01000000
PycommExpectedResponse ==
  <<0, 101, 0, 4, 0, 0, 0, 1, 0, 0, 0, 0>> \o PycommContext
    \o <<0, 0, 0, 0, 1, 0, 0, 0>>

\* C7: the first REGISTER_SESSION of a server, sent big-endian with context
\* '_pycomm_' and payload version 1, options 0, is answered with exactly
\* the 28 expected bytes.
C7_PycommRegisterBytes ==
  \A rec \in Handled :
    (/\ rec.frame = Register(FALSE, 1)
     /\ rec.nextBefore = 1)
    => rec.out = <<PycommExpectedResponse>>

\* C8: the 24-byte header of every response is written in the byte order
\* detected for its request: read in that order, it holds the request's
\* command, the length of the payload that follows, a status the server
\* uses, and options 0.
C8_HeaderInDetectedOrder ==
  \A rec \in Answered :
    LET out == rec.out[1]
    IN  /\ Len(out) >= HeaderLength
        /\ read16(rec.isLittleEndian, out, 0) = RequestOf(rec).command
        /\ read16(rec.isLittleEndian, out, 2) = Len(out) - HeaderLength
        /\ read32(rec.isLittleEndian, out, 8) \in
             {STATUS_SUCCESS, STATUS_INVALID_COMMAND, STATUS_INVALID_SESSION_HANDLE,
              STATUS_INVALID_LENGTH, STATUS_UNSUPPORTED_PROTOCOL}
        /\ read32(rec.isLittleEndian, out, 20) = 0

\* one chunk held a big-endian frame and then a little-endian one, both
\* answered, the second with a payload
C8_Witness ==
  /\ Len(handled) = 2
  /\ ~handled[1].isLittleEndian /\ handled[1].out # <<>>
  /\ handled[2].isLittleEndian /\ handled[2].out # <<>>
  /\ Len(handled[2].out[1]) > HeaderLength

\* C9: every multi-byte integer of a response payload is written in the
\* byte order detected for the request: the version and options of a
\* REGISTER_SESSION reply, the descriptor of a LIST_SERVICES reply, the CPF
\* fields of a SEND_RR_DATA reply.
C9_PayloadInDetectedOrder ==
  \A rec \in Answered :
    LET le == rec.isLittleEndian
        cmd == RequestOf(rec).command
        data == ResponseOf(rec).data
    IN  (rec.known /\ ResponseOf(rec).status = STATUS_SUCCESS /\ data # <<>>) =>
          CASE cmd = CMD_REGISTER_SESSION ->
                 /\ Len(data) = 4
                 /\ read16(le, data, 0) = 1
                 /\ read16(le, data, 2) = 0
            [] cmd = CMD_LIST_SERVICES ->
                 /\ Len(data) = 16
                 /\ read16(le, data, 0) = 1
                 /\ read16(le, data, 2) = 1
                 /\ read16(le, data, 4) = 1
                 /\ read16(le, data, 6) = 0
            [] cmd = CMD_SEND_RR_DATA ->
                 /\ Len(data) >= 16
                 /\ read16(le, data, 6) = 2
                 /\ read16(le, data, 8) = 0
                 /\ read16(le, data, 10) = 0
                 /\ read16(le, data, 12) = 178
                 /\ read16(le, data, 14) = Len(data) - 16
            [] OTHER -> TRUE

\* C10: a frame whose command is none of 0x0004, 0x0063, 0x0065, 0x0066,
\* 0x006F is answered INVALID_COMMAND with an empty payload, and changes
\* neither the sessions nor the tags.
C10_UnknownCommandRejected ==
  \A rec \in Handled :
    RequestOf(rec).command \notin
      {CMD_LIST_SERVICES, CMD_LIST_IDENTITY, CMD_REGISTER_SESSION,
       CMD_UNREGISTER_SESSION, CMD_SEND_RR_DATA}
    => /\ rec.out # <<>>
       /\ ResponseOf(rec).status = STATUS_INVALID_COMMAND
       /\ ResponseOf(rec).length = 0
       /\ Len(rec.out[1]) = HeaderLength
       /\ rec.sessionsAfter = rec.sessionsBefore
       /\ rec.tagsAfter = rec.tagsBefore

\* a SEND_UNIT_DATA frame with a payload was handled while a session was
\* live
C10_Witness ==
  \E rec \in Handled :
    /\ RequestOf(rec).command = CMD_SEND_UNIT_DATA
    /\ RequestOf(rec).length = 2
    /\ DOMAIN rec.sessionsBefore # {}

(***************************************************************************)
(* Properties of the CIP layer, over the SEND_RR_DATA frames handled on a  *)
(* live session.                                                           *)
(***************************************************************************)
LiveSendRRData ==
  {rec \in Handled :
     /\ rec.known
     /\ RequestOf(rec).command = CMD_SEND_RR_DATA
     /\ RequestOf(rec).sessionHandle \in DOMAIN rec.sessionsBefore}

\* a CIP request that is complete: service, path_words and the path bytes
\* path_words announces
WellFormedCip(cip) == Len(cip) >= 2 /\ 2 + 2 * cip[2] <= Len(cip)

\* the items of a CPF list, each with its header and its item_length bytes
\* inside the payload: the contents of the 0x00B2 items, in order; fits is
\* false when a header or an item runs past the end
RECURSIVE CpfWalk(_, _, _, _, _)
CpfWalk(data, isLittleEndian, remaining, offset, found) ==
  IF remaining = 0 THEN [fits |-> TRUE, found |-> found]
  ELSE IF offset + 4 > Len(data)
            \/ offset + 4 + read16(isLittleEndian, data, offset + 2) > Len(data)
       THEN [fits |-> FALSE, found |-> found]
       ELSE CpfWalk(data, isLittleEndian, remaining - 1,
              offset + 4 + read16(isLittleEndian, data, offset + 2),
              IF read16(isLittleEndian, data, offset) = 178
              THEN Append(found,
                     Slice(data, offset + 4,
                           offset + 4 + read16(isLittleEndian, data, offset + 2)))
              ELSE found)

\* a SEND_RR_DATA payload that is a well-formed CPF item list with a 0x00B2
\* item holding a well-formed CIP request
WellFormedPayload(data, isLittleEndian) ==
  /\ Len(data) >= 8
  /\ CpfWalk(data, isLittleEndian, read16(isLittleEndian, data, 6), 8, <<>>).fits
  /\ \E i \in DOMAIN CpfWalk(data, isLittleEndian,
                               read16(isLittleEndian, data, 6), 8, <<>>).found :
       WellFormedCip(CpfWalk(data, isLittleEndian,
                             read16(isLittleEndian, data, 6), 8, <<>>).found[i])

\* C11: a SEND_RR_DATA on a live handle whose payload is not a well-formed
\* CPF item list holding a well-formed CIP request in a 0x00B2 item is
\* answered INVALID_LENGTH with an empty payload, and nothing is dispatched
\* (no tag changes).
C11_MalformedPayloadRejected ==
  \A rec \in LiveSendRRData :
    ~WellFormedPayload(RequestOf(rec).data, rec.isLittleEndian)
      => /\ rec.out # <<>>
         /\ ResponseOf(rec).status = STATUS_INVALID_LENGTH
         /\ ResponseOf(rec).data = <<>>
         /\ rec.tagsAfter = rec.tagsBefore

\* the CIP response carried by a SEND_RR_DATA response payload: the bytes of
\* its 0x00B2 item, <<>> when the payload is not the two-item list
CipReplyOf(rec) ==
  IF /\ Len(ResponseOf(rec).data) >= 16
     /\ read16(rec.isLittleEndian, ResponseOf(rec).data, 6) = 2
     /\ read16(rec.isLittleEndian, ResponseOf(rec).data, 12) = 178
     /\ read16(rec.isLittleEndian, ResponseOf(rec).data, 14)
          = Len(ResponseOf(rec).data) - 16
  THEN SliceFrom(ResponseOf(rec).data, 16)
  ELSE <<>>

\* a complete CIP response: service with the response bit, reserved byte,
\* general status, additional status size 0
WellFormedReply(bytes) ==
  Len(bytes) >= 4 /\ bytes[1] >= 128 /\ bytes[2] = 0 /\ bytes[4] = 0

\* C12: a SEND_RR_DATA on a live handle whose 0x00B2 item holds a CIP
\* request is answered with encapsulation status 0 and a well-formed CIP
\* response, whatever the service, path and data.
C12_CipFailureInGeneralStatus ==
  \A rec \in LiveSendRRData :
    WellFormedPayload(RequestOf(rec).data, rec.isLittleEndian)
      => /\ rec.out # <<>>
         /\ ResponseOf(rec).status = STATUS_SUCCESS
         /\ WellFormedReply(CipReplyOf(rec))

\* the CIP request of a handled SEND_RR_DATA, as handleSendRRData takes it
\* from the payload
CipRequestOf(rec) ==
  IF ParseCpf(RequestOf(rec).data, rec.isLittleEndian).threw
  THEN cipFromBuffer(<<>>)
  ELSE cipFromBuffer(ParseCpf(RequestOf(rec).data, rec.isLittleEndian).cip)

\* the frames whose CIP request parses and has the given service code
Requests(service) ==
  {rec \in LiveSendRRData :
     CipRequestOf(rec).ok /\ CipRequestOf(rec).service % 128 = service}

\* the message embedded in an Unconnected Send, <<>> when the data is short
EmbeddedOf(message) ==
  IF Len(message.data) >= 4 /\ Len(message.data) >= 4 + readUInt16LE(message.data, 2)
  THEN Slice(message.data, 4, 4 + readUInt16LE(message.data, 2))
  ELSE <<>>

\* what the server writes when the request cip is submitted directly in the
\* frame of rec, the state being the one rec was handled in
DirectOut(rec, cip, rnd) ==
  handleSendRRData(
    [RequestOf(rec) EXCEPT !.data = CpfPayload(rec.isLittleEndian, cip)],
    rec.isLittleEndian,
    [sessions |-> rec.sessionsBefore, next |-> rec.nextBefore, tags |-> rec.tagsBefore],
    0, rnd).out

\* C13: the response to an Unconnected Send wrapping a request E that parses
\* is the response E gets when submitted directly (for some outcome of the
\* random tag values), with no 0x52 envelope.
C13_SendAnswersAsEmbedded ==
  \A rec \in Requests(82) :
    WellFormedCip(EmbeddedOf(CipRequestOf(rec)))
      => \E rnd \in [1..CipReadsPerFrame -> TagValues] :
           rec.out = DirectOut(rec, EmbeddedOf(CipRequestOf(rec)), rnd)

\* C14: handleCIPMessage is never entered more than 4 levels deep.
C14_DispatchDepthBounded ==
  \A rec \in LiveSendRRData :
    CipRequestOf(rec).ok => DispatchDepth(CipRequestOf(rec)) <= 4

\* the general status and the data of a CIP response
ReplyStatus(bytes) == bytes[3]

ReplyData(bytes) == SliceFrom(bytes, 4)

\* a Multiple Service Packet whose offset table lies within its data
TableFits(message) ==
  Len(message.data) >= 2 /\ Len(message.data) >= 2 + 2 * readUInt16LE(message.data, 0)

\* offset i (1-based) of the response data of a Multiple Service Packet, and
\* the bytes from it to the next offset (to the end for the last one)
ReplyOffset(data, i) == readUInt16LE(data, 2 * i)

ReplyBody(data, n, i) ==
  Slice(data, ReplyOffset(data, i),
        IF i < n THEN ReplyOffset(data, i + 1) ELSE Len(data))

\* the dispatch of sub-request bytes on its own, in the state rec was
\* handled in; the status and the length of its response do not depend on
\* the random values
DirectDispatch(rec, bytes) ==
  handleCIPMessage(cipFromBuffer(bytes),
    [tags |-> rec.tagsBefore, rnd |-> [i \in 1..CipReadsPerFrame |-> 0], k |-> 0,
     nsess |-> Cardinality(DOMAIN rec.sessionsBefore)])

\* a sub-request that is malformed or whose dispatch fails
BadService(rec, bytes) == ~WellFormedCip(bytes) \/ DirectDispatch(rec, bytes).threw

\* the length of the response body a sub-request is due
BodyLength(rec, bytes) ==
  IF BadService(rec, bytes) THEN 4
  ELSE Len(cipToBuffer(DirectDispatch(rec, bytes).resp))

\* C15: the response data of a Multiple Service Packet of n sub-requests is
\* the count n, n offsets and n bodies: the first offset is 2 + 2n, each
\* next offset is the previous one plus the length of the previous body,
\* the data ends with the last body, and each body is a complete CIP
\* response of at least 4 bytes.
C15_OffsetsDelimitBodies ==
  \A rec \in Requests(10) :
    TableFits(CipRequestOf(rec))
      => LET n    == readUInt16LE(CipRequestOf(rec).data, 0)
             data == ReplyData(CipReplyOf(rec))
         IN  /\ WellFormedReply(CipReplyOf(rec))
             /\ Len(data) >= 2 + 2 * n
             /\ readUInt16LE(data, 0) = n
             /\ n = 0 => Len(data) = 2
             /\ n > 0 => ReplyOffset(data, 1) = 2 + 2 * n
             /\ \A i \in 1..n :
                  /\ (IF i < n THEN ReplyOffset(data, i + 1) ELSE Len(data))
                       = ReplyOffset(data, i)
                           + BodyLength(rec, ServiceData(CipRequestOf(rec), n, i - 1))
                  /\ WellFormedReply(ReplyBody(data, n, i))

\* a Multiple Service Packet of three sub-requests was answered, with bodies
\* of different lengths
C15_Witness ==
  \E rec \in Requests(10) :
    /\ TableFits(CipRequestOf(rec))
    /\ readUInt16LE(CipRequestOf(rec).data, 0) = 3
    /\ WellFormedReply(CipReplyOf(rec))
    /\ Len(ReplyBody(ReplyData(CipReplyOf(rec)), 3, 1)) = 4
    /\ Len(ReplyBody(ReplyData(CipReplyOf(rec)), 3, 3)) > 4

\* C16: in a Multiple Service Packet of n sub-requests the outer status is
\* SUCCESS and the count n; a sub-request that is malformed or whose dispatch
\* fails gets one 4-byte body with status NOT_ENOUGH_DATA or GENERAL_ERROR
\* at its position, and every other sub-request gets the response of its
\* own dispatch.
C16_BadServiceIsolated ==
  \A rec \in Requests(10) :
    TableFits(CipRequestOf(rec))
      => LET n    == readUInt16LE(CipRequestOf(rec).data, 0)
             data == ReplyData(CipReplyOf(rec))
         IN  /\ WellFormedReply(CipReplyOf(rec))
             /\ ReplyStatus(CipReplyOf(rec)) = CIP_SUCCESS
             /\ readUInt16LE(data, 0) = n
             /\ \A i \in 1..n :
                  LET sub  == ServiceData(CipRequestOf(rec), n, i - 1)
                      body == ReplyBody(data, n, i)
                  IN  /\ Len(body) >= 4
                      /\ IF BadService(rec, sub)
                         THEN /\ Len(body) = 4
                              /\ ReplyStatus(body) \in {CIP_NOT_ENOUGH_DATA, CIP_GENERAL_ERROR}
                         ELSE /\ body[1] = cipToBuffer(DirectDispatch(rec, sub).resp)[1]
                              /\ Len(body) = Len(cipToBuffer(DirectDispatch(rec, sub).resp))
                              /\ ReplyStatus(body)
                                   = ReplyStatus(cipToBuffer(DirectDispatch(rec, sub).resp))

\* a Multiple Service Packet was answered in which a sub-request with too
\* long a path length came first and a served sub-request after it
C16_Witness ==
  \E rec \in Requests(10) :
    /\ TableFits(CipRequestOf(rec))
    /\ readUInt16LE(CipRequestOf(rec).data, 0) = 2
    /\ Len(ServiceData(CipRequestOf(rec), 2, 0)) >= 2
    /\ ~WellFormedCip(ServiceData(CipRequestOf(rec), 2, 0))
    /\ ~BadService(rec, ServiceData(CipRequestOf(rec), 2, 1))
    /\ WellFormedReply(CipReplyOf(rec))
    /\ ReplyStatus(ReplyBody(ReplyData(CipReplyOf(rec)), 2, 1)) = CIP_GENERAL_ERROR
    /\ ReplyStatus(ReplyBody(ReplyData(CipReplyOf(rec)), 2, 2)) = CIP_SUCCESS

\* the value of 4 bytes at a 0-based offset read as a signed 32-bit integer,
\* little-endian
ReadInt32LE(b, off) == readUInt32LE(b, off)

\* the tags other than idx are as they were before rec was handled
OnlyTagTouched(rec, idx) ==
  \A j \in 1..NumTags : j # idx => rec.tagsAfter[j] = rec.tagsBefore[j]

\* how many random values the dispatch of the request of rec consumes
ReadsOf(rec, rnd) ==
  handleCIPMessage(CipRequestOf(rec),
    [tags |-> rec.tagsBefore, rnd |-> rnd, k |-> 0,
     nsess |-> Cardinality(DOMAIN rec.sessionsBefore)]).k

\* C17: a Read_Tag answered SUCCESS carries exactly 6 data bytes, the type
\* code 0x00C4 and the value as i32, both little-endian; the value lies in
\* -1000000..1000000, is the value the tag holds after the dispatch, no
\* other tag changes, and the read draws exactly one random value.
C17_ReadReturnsStoredValue ==
  \A rec \in Requests(76) :
    (WellFormedReply(CipReplyOf(rec)) /\ ReplyStatus(CipReplyOf(rec)) = CIP_SUCCESS)
      => LET data == ReplyData(CipReplyOf(rec))
         IN  /\ Len(data) = 6
             /\ data[1] = 196 /\ data[2] = 0
             /\ ReadInt32LE(data, 2) >= -1000000
             /\ ReadInt32LE(data, 2) <= 1000000
             /\ \E idx \in 1..NumTags :
                  /\ rec.tagsAfter[idx] = ReadInt32LE(data, 2)
                  /\ OnlyTagTouched(rec, idx)
             /\ \A rnd \in [1..CipReadsPerFrame -> TagValues] : ReadsOf(rec, rnd) = 1

\* a Read_Tag of the positional address 'Tag_2' was answered SUCCESS with a
\* value other than the one tag 2 held
C17_Witness ==
  \E rec \in Requests(76) :
    /\ FirstSymbolic(parsePath(CipRequestOf(rec).path).segments).name = TagAddress(2)
    /\ WellFormedReply(CipReplyOf(rec))
    /\ ReplyStatus(CipReplyOf(rec)) = CIP_SUCCESS
    /\ rec.tagsAfter[2] # rec.tagsBefore[2]
    /\ rec.tagsAfter[2] = ReadInt32LE(ReplyData(CipReplyOf(rec)), 2)

\* a path without the pad byte 0 it may end with
Unpadded(path) ==
  IF Len(path) > 0 /\ path[Len(path)] = 0 THEN SubSeq(path, 1, Len(path) - 1) ELSE path

\* where the decimal number a string ends with starts (1-based), 0 when the
\* string does not end with a digit
TrailingNumberAt(s) ==
  IF Len(s) = 0 \/ ~IsDigit(s[Len(s)]) THEN 0
  ELSE FirstMatch({i \in 1..Len(s) : \A j \in i..Len(s) : IsDigit(s[j])})

\* the tag (1-based) indexed by the decimal number the path ends with, 0 for
\* none
TagOfTrailingNumber(s) ==
  IF TrailingNumberAt(s) = 0 THEN 0
  ELSE TagInRange(DigitRunValue(s, TrailingNumberAt(s),
                                DigitRunLen(s, TrailingNumberAt(s))) - 1)

\* the three lookups in order: the symbolic name as a tag name, the same
\* string as a positional address, the trailing number as an index; 0 when
\* all three miss
TagResolved(path, tagName) ==
  IF tagName.found /\ TagIndexByName(tagName.name) # 0
  THEN TagIndexByName(tagName.name)
  ELSE IF tagName.found /\ findTagByAddress(tagName.name) # 0
       THEN findTagByAddress(tagName.name)
       ELSE TagOfTrailingNumber(AsciiString(Unpadded(path)))

\* C18: a Read_Tag whose path parses is resolved by name, then by positional
\* address, then by the trailing decimal number of the path as a 1-based
\* index: when one of them hits, that tag is read and the response is
\* SUCCESS; only when all three miss is the response PATH_DESTINATION_UNKNOWN
\* with empty data and no tag read.
C18_ReadTagResolutionOrder ==
  \A rec \in Requests(76) :
    (CipRequestOf(rec).service = 76 /\ ~parsePath(CipRequestOf(rec).path).threw)
      => LET idx == TagResolved(CipRequestOf(rec).path,
                      FirstSymbolic(parsePath(CipRequestOf(rec).path).segments))
         IN  /\ WellFormedReply(CipReplyOf(rec))
             /\ IF idx = 0
                THEN /\ ReplyStatus(CipReplyOf(rec)) = CIP_PATH_DESTINATION_UNKNOWN
                     /\ ReplyData(CipReplyOf(rec)) = <<>>
                     /\ rec.tagsAfter = rec.tagsBefore
                ELSE /\ ReplyStatus(CipReplyOf(rec)) = CIP_SUCCESS
                     /\ Len(ReplyData(CipReplyOf(rec))) = 6
                     /\ rec.tagsAfter[idx] = ReadInt32LE(ReplyData(CipReplyOf(rec)), 2)
                     /\ OnlyTagTouched(rec, idx)

\* the class id of a parsed path, -1 for none
ClassOf(path) == LastLogical(parsePath(path).segments, 0)

\* C19: a Get_Attribute_Single whose path parses, has no class segment of
\* the identity, message router or connection manager object, and has a
\* symbolic segment: when the name is the name of a tag, that tag is read
\* (status SUCCESS, the data ending with the refreshed value as i32
\* little-endian); otherwise the response is OBJECT_DOES_NOT_EXIST.
C19_AttributeSingleReadsTag ==
  \A rec \in Requests(14) :
    (/\ CipRequestOf(rec).service = 14
     /\ ~parsePath(CipRequestOf(rec).path).threw
     /\ ClassOf(CipRequestOf(rec).path) \notin {1, 2, 6}
     /\ FirstSymbolic(parsePath(CipRequestOf(rec).path).segments).found)
      => LET idx == TagIndexByName(
                      FirstSymbolic(parsePath(CipRequestOf(rec).path).segments).name)
             data == ReplyData(CipReplyOf(rec))
         IN  /\ WellFormedReply(CipReplyOf(rec))
             /\ IF idx = 0
                THEN ReplyStatus(CipReplyOf(rec)) = CIP_OBJECT_DOES_NOT_EXIST
                ELSE /\ ReplyStatus(CipReplyOf(rec)) = CIP_SUCCESS
                     /\ Len(data) >= 4
                     /\ rec.tagsAfter[idx] = ReadInt32LE(data, Len(data) - 4)
                     /\ OnlyTagTouched(rec, idx)

\* the attributes each object answers
AttributeTable(classId) ==
  CASE classId = 1 -> 1..7
    [] classId = 2 -> 1..3
    [] classId = 6 -> 1..2
    [] OTHER -> {}

\* a CIP response with the given general status and no data
ErrorReply(bytes, status) ==
  WellFormedReply(bytes) /\ ReplyStatus(bytes) = status /\ ReplyData(bytes) = <<>>

\* C20: a Get_Attribute_Single with an empty path or a path without a class
\* segment is answered PATH_SEGMENT_ERROR; on class 0x01, 0x02 or 0x06 an
\* instance other than 0 or 1 is answered OBJECT_DOES_NOT_EXIST whatever the
\* attribute, and with instance 0 or 1 an attribute outside the class's
\* table is answered ATTRIBUTE_NOT_SUPPORTED; each time with empty data.
C20_AttributeSingleErrors ==
  \A rec \in Requests(14) :
    CipRequestOf(rec).service = 14
      => LET message == CipRequestOf(rec)
             pp      == parsePath(message.path)
             inst    == LastLogical(pp.segments, 1)
             attr    == AttributeIdOf(message, LastLogical(pp.segments, 4))
         IN  /\ (Len(message.path) = 0 \/ ClassOf(message.path) = -1)
                  => ErrorReply(CipReplyOf(rec), CIP_PATH_SEGMENT_ERROR)
             /\ (~pp.threw /\ ClassOf(message.path) \in {1, 2, 6} /\ inst \notin {-1, 0, 1})
                  => ErrorReply(CipReplyOf(rec), CIP_OBJECT_DOES_NOT_EXIST)
             /\ (/\ ~pp.threw /\ ClassOf(message.path) \in {1, 2, 6} /\ inst \in {0, 1}
                 /\ attr \notin AttributeTable(ClassOf(message.path)))
                  => ErrorReply(CipReplyOf(rec), CIP_ATTRIBUTE_NOT_SUPPORTED)

(***************************************************************************)
(* Properties of the session registry.                                     *)
(***************************************************************************)
\* a Get_Attribute_Single of attribute 2 of the connection manager, instance
\* 0 or 1
AsksSessionCount(message) ==
  /\ message.service = 14
  /\ ~parsePath(message.path).threw
  /\ ClassOf(message.path) = 6
  /\ LastLogical(parsePath(message.path).segments, 1) \in {0, 1}
  /\ AttributeIdOf(message, LastLogical(parsePath(message.path).segments, 4)) = 2

CarriesSweptHandle(rec) ==
  /\ rec.known
  /\ RequestOf(rec).command = CMD_SEND_RR_DATA
  /\ RequestOf(rec).sessionHandle >= 1
  /\ RequestOf(rec).sessionHandle < rec.nextBefore
  /\ RequestOf(rec).sessionHandle \notin DOMAIN rec.sessionsBefore
  /\ ~rec.gone

\* a frame served as a server serves it when nothing went wrong before: a
\* REGISTER_SESSION of version 1 creates a session, the commands that need
\* no session and a SEND_RR_DATA on a live handle are answered SUCCESS
ServedNormally(rec) ==
  /\ rec.out # <<>>
  /\ ~rec.threw
  /\ RequestOf(rec).command = CMD_REGISTER_SESSION
       => /\ ResponseOf(rec).status = STATUS_SUCCESS
          /\ ResponseOf(rec).sessionHandle = rec.nextBefore
          /\ rec.nextBefore \in DOMAIN rec.sessionsAfter
  /\ RequestOf(rec).command = CMD_LIST_SERVICES
       => ResponseOf(rec).status = STATUS_SUCCESS
  /\ RequestOf(rec).command = CMD_SEND_RR_DATA
       => ResponseOf(rec).status
            = IF RequestOf(rec).sessionHandle \in DOMAIN rec.sessionsBefore
              THEN STATUS_SUCCESS ELSE STATUS_INVALID_SESSION_HANDLE

\* C22: a SEND_RR_DATA carrying the handle of a session the sweep removed
\* is answered INVALID_SESSION_HANDLE with an empty payload; the connection
\* stays open, nothing of its buffer is dropped, and every later frame on
\* it is served normally.
C22_StaleHandleKeepsConnection ==
  \A c \in Conns : \A i \in 1..Len(log[c]) :
    CarriesSweptHandle(log[c][i])
      => /\ log[c][i].out # <<>>
         /\ ~log[c][i].threw
         /\ ResponseOf(log[c][i]).status = STATUS_INVALID_SESSION_HANDLE
         /\ ResponseOf(log[c][i]).data = <<>>
         /\ log[c][i].sessionsAfter = log[c][i].sessionsBefore
         /\ conn[c] = "open"
         /\ \A j \in (i + 1)..Len(log[c]) : ServedNormally(log[c][j])

\* on one connection a SEND_RR_DATA with the swept handle 1 was rejected,
\* then a REGISTER_SESSION created session 2, then a SEND_RR_DATA on handle
\* 2 was answered SUCCESS
C22_Witness ==
  /\ Len(log[1]) = 3
  /\ CarriesSweptHandle(log[1][1])
  /\ RequestOf(log[1][1]).sessionHandle = 1
  /\ RegisteredBy(log[1][2])
  /\ ResponseOf(log[1][2]).sessionHandle = 2
  /\ RequestOf(log[1][3]).command = CMD_SEND_RR_DATA
  /\ RequestOf(log[1][3]).sessionHandle = 2
  /\ ResponseOf(log[1][3]).status = STATUS_SUCCESS

\* a request answered SUCCESS that carries the handle of a session that is
\* live before and after it
SucceedsOnLiveHandle(rec) ==
  /\ rec.known
  /\ rec.out # <<>>
  /\ RequestOf(rec).command \in
       {CMD_SEND_RR_DATA, CMD_LIST_SERVICES, CMD_LIST_IDENTITY, CMD_REGISTER_SESSION}
  /\ ResponseOf(rec).status = STATUS_SUCCESS
  /\ RequestOf(rec).sessionHandle \in DOMAIN rec.sessionsBefore
  /\ RequestOf(rec).sessionHandle \in DOMAIN rec.sessionsAfter

\* C24: a request answered SUCCESS that carries the handle of a live
\* session sets that session's last-activity time to the time of the
\* request, whatever its command.
C24_SuccessRefreshesActivity ==
  \A rec \in Handled :
    SucceedsOnLiveHandle(rec)
      => rec.sessionsAfter[RequestOf(rec).sessionHandle].lastActivity = now

\* C25: every session in the registry has lastActivity >= createdAt and has
\* been idle for at most IdleTimeoutMs.
C25_IdleAgeBounded ==
  \A h \in DOMAIN sessions :
    /\ sessions[h].lastActivity >= sessions[h].createdAt
    /\ now - sessions[h].lastActivity <= IdleTimeoutMs

\* C23: createSession returns 1 on a new registry and a strictly larger
\* handle on each later call; the handle is never 0, never one that is live
\* at that moment, and always fits the 32-bit session-handle field of the
\* response, also when the counter passes 0xFFFFFFFF.
C23_HandleFitsAndIsFresh ==
  \A i \in 1..Len(handled) :
    /\ handled[i].handle # WideNumber(0, 0)
    /\ handled[i].handle \notin handled[i].liveBefore
    /\ handled[i].nextBefore = WideNumber(0, 1) => handled[i].handle = WideNumber(0, 1)
    /\ \A j \in 1..(i - 1) : WideLess(handled[j].handle, handled[i].handle)
    /\ WideFitsUInt32(handled[i].handle)
    /\ Len(handled[i].out) = 4

(***************************************************************************)
(* Properties of the packet codec.                                         *)
(***************************************************************************)
\* C26: for every legal packet (length field equal to the payload size,
\* payload of 0 to 65511 bytes) and both byte orders, the encoded frame is
\* 24 + length bytes long and decoding it gives back the packet, field by
\* field.
C26_DecodeOfEncode ==
  /\ nsent >= 1 => Len(wire[1]) = HeaderLength + handled[1].packet.length
  /\ nsent = 2 =>
       /\ log[1][1].command = handled[1].packet.command
       /\ log[1][1].length = handled[1].packet.length
       /\ log[1][1].sessionHandle = handled[1].packet.sessionHandle
       /\ log[1][1].status = handled[1].packet.status
       /\ log[1][1].senderContext = handled[1].packet.senderContext
       /\ log[1][1].options = handled[1].packet.options
       /\ log[1][1].data = handled[1].packet.data

C26_Witness ==
  /\ nsent = 2
  /\ handled[1].isLittleEndian
  /\ handled[1].packet.length = 256
  /\ handled[1].packet.sessionHandle = readUInt32BE(<<255, 255, 255, 255>>, 0)
  /\ handled[1].packet.command = CMD_SEND_RR_DATA
  /\ log[1][1] = handled[1].packet

(***************************************************************************)
(* Properties of the LIST_IDENTITY response.                               *)
(***************************************************************************)
AnswersListIdentity(rec) ==
  rec.known /\ RequestOf(rec).command = CMD_LIST_IDENTITY /\ Len(rec.out) = 1

\* the length prefix of the product name, at offset 28 of the payload
NamePrefix(data) == readUInt16BE(data, 28)

\* C27: in a response that carries the product name, the name is at most 32
\* bytes long and the length prefix equals the number of name bytes that
\* follow it; here for the LIST_IDENTITY payload, whose prefix is at offset 28
\* and whose name starts at offset 30.
C27_NamePrefixCountsName ==
  \A rec \in Handled :
    AnswersListIdentity(rec)
      => /\ Len(ResponseOf(rec).data) >= 30
         /\ NamePrefix(ResponseOf(rec).data) <= 32
         /\ Len(ResponseOf(rec).data) >= 30 + NamePrefix(ResponseOf(rec).data)
         /\ Slice(ResponseOf(rec).data, 30, 30 + NamePrefix(ResponseOf(rec).data))
              = Slice(productName, 0, NamePrefix(ResponseOf(rec).data))

\* C28: LIST_IDENTITY is answered with status 0 and, at payload offset 4, the
\* four octets a, b, c, d of the local address (the big-endian bytes of
\* a * 2^24 + b * 2^16 + c * 2^8 + d), also for a first octet of 128 or more.
C28_ListIdentityCarriesAddress ==
  \A rec \in Handled :
    (rec.known /\ RequestOf(rec).command = CMD_LIST_IDENTITY)
      => /\ Len(rec.out) = 1
         /\ ResponseOf(rec).command = CMD_LIST_IDENTITY
         /\ ResponseOf(rec).status = STATUS_SUCCESS
         /\ Len(ResponseOf(rec).data) >= 8
         /\ Slice(ResponseOf(rec).data, 4, 8) = localAddress[rec.conn]

(***************************************************************************)
(* Properties of the reassembly, over the bytes delivered (stream) and the *)
(* frames dispatched (log) of a connection.                                *)
(***************************************************************************)
\* the size the header at the head of b declares for its frame
FrameLengthAt(b) == HeaderLength + read16(DetectLittleEndian(b), b, 2)

BeginsWithCompleteFrame(b) ==
  Len(b) >= HeaderLength /\ Len(b) >= FrameLengthAt(b)

\* the complete frames a byte stream consists of, whatever its chunks
RECURSIVE CompleteFrames(_)

CompleteFrames(b) ==
  IF BeginsWithCompleteFrame(b)
  THEN <<Slice(b, 0, FrameLengthAt(b))>> \o CompleteFrames(SliceFrom(b, FrameLengthAt(b)))
  ELSE <<>>

RECURSIVE DispatchedBytes(_)

DispatchedBytes(recs) ==
  IF recs = <<>> THEN 0 ELSE Len(Head(recs).frame) + DispatchedBytes(Tail(recs))

\* C29: each complete frame received on a connection is dispatched exactly
\* once: no frame is dispatched on bytes a handler was given before, and once
\* no handler is pending every byte delivered was dispatched in a frame or is
\* still in the buffer, so no bytes of a following frame are dropped.
C29_EachFrameDispatchedOnce ==
  \A c \in Conns :
    /\ \A i \in 1..Len(log[c]) : log[c][i].already = 0
    /\ susp[c] = <<>> => DispatchedBytes(log[c]) + Len(buffer[c]) = Len(stream[c])

\* C30: once the processing a data event started is over, the buffer does not
\* begin with a complete frame, and the frames dispatched are the complete
\* frames of the bytes delivered, however they were split into chunks.
C30_DispatchIndependentOfChunks ==
  \A c \in Conns :
    susp[c] = <<>>
      => /\ ~BeginsWithCompleteFrame(buffer[c])
         /\ [i \in 1..Len(log[c]) |-> log[c][i].frame] = CompleteFrames(stream[c])

(***************************************************************************)
(* Properties of the endianness probe and of the framing it governs.       *)
(***************************************************************************)
WellKnownCodes == {4, 99, 101, 102, 111}

\* C31: a frame is decoded little-endian exactly when the little-endian
\* reading of its bytes 0-1 is a well-known code and the big-endian reading is
\* not, and its length field is read in the order of its command: the frame
\* handled is 24 bytes plus the length read in that order.
C31_ProbeChoosesOrder ==
  \A rec \in Handled :
    /\ rec.isLittleEndian
         <=> (/\ rec.frame[1] + 256 * rec.frame[2] \in WellKnownCodes
              /\ 256 * rec.frame[1] + rec.frame[2] \notin WellKnownCodes)
    /\ Len(rec.frame)
         = HeaderLength + (IF rec.isLittleEndian
                           THEN rec.frame[3] + 256 * rec.frame[4]
                           ELSE 256 * rec.frame[3] + rec.frame[4])

\* a LIST_IDENTITY frame sent little-endian was decoded little-endian
C31_Witness ==
  \E rec \in Handled :
    /\ rec.isLittleEndian
    /\ rec.frame[1] = CMD_LIST_IDENTITY
    /\ rec.frame[2] = 0
    /\ rec.out # <<>>

\* the complete frames of a byte stream whose every length field is encoded
\* in one byte order
RECURSIVE FramesInOrder(_, _)

FramesInOrder(isLittleEndian, b) ==
  IF Len(b) >= HeaderLength /\ Len(b) >= HeaderLength + read16(isLittleEndian, b, 2)
  THEN <<Slice(b, 0, HeaderLength + read16(isLittleEndian, b, 2))>>
         \o FramesInOrder(isLittleEndian,
                          SliceFrom(b, HeaderLength + read16(isLittleEndian, b, 2)))
  ELSE <<>>

\* C32: for a client that encodes every frame in one byte order (here
\* little-endian), frames of commands outside the five well-known codes
\* included, the frames the server delimits are the frames the client sent:
\* once no handler is pending, the frames dispatched are the complete frames
\* of the bytes delivered, delimited by the lengths the client encoded.
C32_BoundariesAreTheClients ==
  \A c \in Conns :
    (profile = "framing" /\ susp[c] = <<>>)
      => [i \in 1..Len(log[c]) |-> log[c][i].frame] = FramesInOrder(TRUE, stream[c])

(***************************************************************************)
(* Properties of the error paths of the data handler.                      *)
(***************************************************************************)
\* C33: when the handling of a complete frame fails with an internal error,
\* the frame is answered or the connection is closed: no request is left
\* without a response on a connection that stays open.
C33_FailureAnsweredOrClosed ==
  \A rec \in Handled :
    rec.threw => (Len(rec.out) >= 1 \/ conn[rec.conn] # "open")

\* the buffer a data event on connection c starts its loop with: the bytes
\* kept plus the bytes that left the wire in this step
BufferAtDataEvent(c) ==
  buffer[c] \o SubSeq(wire[c], 1, Len(wire[c]) - Len(wire'[c]))

DataStep(c) ==
  conn[c] = "open" /\ conn'[c] = "open" /\ Len(wire'[c]) < Len(wire[c])

\* C34: when the frame at the head of the buffer declares a length with
\* 24 + length above 65535, the whole buffer is discarded, no handler runs,
\* no response is written, sessions and tags are unchanged, and the bytes that
\* arrive afterwards are parsed from an empty buffer.
C34_OversizeDiscardsBuffer ==
  [][\A c \in Conns :
       (/\ DataStep(c)
        /\ Len(BufferAtDataEvent(c)) >= HeaderLength
        /\ FrameLengthAt(BufferAtDataEvent(c)) > 65535)
         => /\ buffer'[c] = <<>>
            /\ handled' = <<>>
            /\ log' = log
            /\ susp' = susp
            /\ sessions' = sessions
            /\ nextSessionHandle' = nextSessionHandle
            /\ tags' = tags]_vars

\* the header declaring 65512 payload bytes was delivered and discarded, and
\* the LIST_SERVICES frame delivered after it was handled on its own
C34_Witness ==
  /\ profile = "discard"
  /\ Len(stream[1]) = 2 * HeaderLength
  /\ FrameLengthAt(stream[1]) = 65536
  /\ buffer[1] = <<>>
  /\ Len(log[1]) = 1
  /\ log[1][1].frame = SliceFrom(stream[1], HeaderLength)
  /\ RequestOf(log[1][1]).command = CMD_LIST_SERVICES
  /\ Len(log[1][1].out) = 1

(***************************************************************************)
(* Properties of the nesting of CIP dispatch.                              *)
(***************************************************************************)
\* the bytes a CIP message was parsed from
MessageSize(message) == 2 + Len(message.path) + Len(message.data)

\* the buffers handleUnconnectedSend and handleMultipleServicePacket hand to
\* CIPMessage.fromBuffer while they serve message
EmbeddedBuffers(message) ==
  CASE message.service % 128 = 82 ->
         IF EmbeddedOf(message) = <<>> THEN {} ELSE {EmbeddedOf(message)}
    [] message.service % 128 = 10 ->
         IF TableFits(message)
         THEN {ServiceData(message, readUInt16LE(message.data, 0), i) :
                 i \in 0..(readUInt16LE(message.data, 0) - 1)}
         ELSE {}
    [] OTHER -> {}

\* every embedded buffer is shorter than the message around it, at every
\* level of nesting
RECURSIVE EmbeddedShrink(_)

EmbeddedShrink(message) ==
  \A b \in EmbeddedBuffers(message) :
    /\ Len(b) < MessageSize(message)
    /\ cipFromBuffer(b).ok => EmbeddedShrink(cipFromBuffer(b))

C36_SweepRemovesExactlyIdle ==
  [][Sweep =>
       /\ DOMAIN sessions' \subseteq DOMAIN sessions
       /\ \A h \in DOMAIN sessions :
            /\ sessions[h].lastActivity + IdleTimeoutMs < now => h \notin DOMAIN sessions'
            /\ now - sessions[h].lastActivity <= IdleTimeoutMs
                 => h \in DOMAIN sessions' /\ sessions'[h] = sessions[h]]_vars

\* after the sweep of time 300001: session 1, idle since 0, is gone without
\* having been unregistered, and session 2, registered at 300001, is as it
\* was created
C36_Witness ==
  /\ now = IdleTimeoutMs + 1
  /\ 1 \notin DOMAIN sessions
  /\ 1 \notin unregistered
  /\ 2 \in DOMAIN sessions
  /\ sessions[2] = [createdAt |-> now, lastActivity |-> now]

(***************************************************************************)
(* Properties of the effect of CIP dispatch on the tags.                   *)
(***************************************************************************)
\* the tags whose value the handling of rec changed
TagsChanged(rec) == {j \in 1..NumTags : rec.tagsAfter[j] # rec.tagsBefore[j]}

\* the requests that embed no other request among message and the requests
\* nested in it
RECURSIVE Leaves(_)

Leaves(message) ==
  IF message.service % 128 \in {10, 82}
  THEN UNION {IF cipFromBuffer(b).ok THEN Leaves(cipFromBuffer(b)) ELSE {} :
                b \in EmbeddedBuffers(message)}
  ELSE {message}

\* the Read_Tag and Get_Attribute_Single requests among them
ReadingLeaves(message) == {m \in Leaves(message) : m.service % 128 \in {76, 14}}

\* C37 as stated: the dispatch of a CIP request changes at most one tag:
\* the tags are the same before and after, at most one value changes, and a
\* request that is not answered SUCCESS changes none.
C37_AtMostOneTagChanges ==
  \A rec \in LiveSendRRData :
    CipRequestOf(rec).ok
      => /\ DOMAIN rec.tagsAfter = DOMAIN rec.tagsBefore
         /\ Cardinality(TagsChanged(rec)) <= 1
         /\ (~WellFormedReply(CipReplyOf(rec)) \/ ReplyStatus(CipReplyOf(rec)) # CIP_SUCCESS)
              => TagsChanged(rec) = {}

\* C37 amended: the tags are the same before and after every dispatch; a
\* request that embeds no other request changes at most one tag, and none
\* unless it is a Read_Tag or Get_Attribute_Single answered SUCCESS; an
\* Unconnected Send or Multiple Service Packet changes at most one tag for
\* each Read_Tag or Get_Attribute_Single nested in it.
C37_OneTagPerReadingRequest ==
  \A rec \in LiveSendRRData :
    CipRequestOf(rec).ok
      => /\ DOMAIN rec.tagsAfter = DOMAIN rec.tagsBefore
         /\ Cardinality(TagsChanged(rec)) <= Cardinality(ReadingLeaves(CipRequestOf(rec)))
         /\ (/\ CipRequestOf(rec).service % 128 \notin {10, 82}
             /\ (~WellFormedReply(CipReplyOf(rec))
                   \/ ReplyStatus(CipReplyOf(rec)) # CIP_SUCCESS))
              => TagsChanged(rec) = {}

\* a Multiple Service Packet with two Read_Tag sub-requests was served and
\* both tags have new values
C37_Witness ==
  \E rec \in Requests(10) :
    /\ Cardinality(ReadingLeaves(CipRequestOf(rec))) = 2
    /\ TagsChanged(rec) = {1, 2}
    /\ WellFormedReply(CipReplyOf(rec))
    /\ ReplyStatus(CipReplyOf(rec)) = CIP_SUCCESS

(***************************************************************************)
(* Properties of sessions across connections.                              *)
(***************************************************************************)
\* the handle a frame carries was registered over another connection than
\* the one the frame arrived on
CarriesForeignHandle(rec) ==
  /\ rec.known
  /\ \E hc \in owner : hc[1] = RequestOf(rec).sessionHandle
  /\ <<RequestOf(rec).sessionHandle, rec.conn>> \notin owner

\* the handle a frame carries was registered over the connection the frame
\* arrived on
CarriesOwnHandle(rec) ==
  /\ rec.known
  /\ <<RequestOf(rec).sessionHandle, rec.conn>> \in owner

\* C38: a handle registered over one connection is honoured on every other:
\* a SEND_RR_DATA carrying a live handle of another connection is not
\* answered INVALID_SESSION_HANDLE and refreshes the session, an
\* UNREGISTER_SESSION carrying it is answered SUCCESS and removes the
\* session, and a SEND_RR_DATA of the registering connection carrying a
\* handle that was unregistered is answered INVALID_SESSION_HANDLE.
C38_HandlesNotBoundToConnection ==
  \A rec \in Handled :
    /\ (/\ CarriesForeignHandle(rec)
        /\ RequestOf(rec).command = CMD_SEND_RR_DATA
        /\ RequestOf(rec).sessionHandle \in DOMAIN rec.sessionsBefore)
       => /\ Len(rec.out) = 1
          /\ ResponseOf(rec).status # STATUS_INVALID_SESSION_HANDLE
          /\ RequestOf(rec).sessionHandle \in DOMAIN rec.sessionsAfter
          /\ rec.sessionsAfter[RequestOf(rec).sessionHandle].lastActivity = now
    /\ (/\ CarriesForeignHandle(rec)
        /\ RequestOf(rec).command = CMD_UNREGISTER_SESSION
        /\ RequestOf(rec).sessionHandle \in DOMAIN rec.sessionsBefore)
       => /\ Len(rec.out) = 1
          /\ ResponseOf(rec).status = STATUS_SUCCESS
          /\ RequestOf(rec).sessionHandle \notin DOMAIN rec.sessionsAfter
    /\ (/\ CarriesOwnHandle(rec)
        /\ RequestOf(rec).command = CMD_SEND_RR_DATA
        /\ rec.gone)
       => /\ Len(rec.out) = 1
          /\ ResponseOf(rec).status = STATUS_INVALID_SESSION_HANDLE
          /\ rec.sessionsAfter = rec.sessionsBefore

\* connection 2 has unregistered the only session, which connection 1
\* registered, while connection 1 is open
C38_Witness ==
  /\ owner = {<<1, 1>>}
  /\ conn[1] = "open"
  /\ \E rec \in Handled :
       /\ rec.conn = 2
       /\ rec.known
       /\ RequestOf(rec).command = CMD_UNREGISTER_SESSION
       /\ RequestOf(rec).sessionHandle = 1
       /\ ResponseOf(rec).status = STATUS_SUCCESS
       /\ DOMAIN rec.sessionsBefore = {1}
       /\ sessions = <<>>

(***************************************************************************)
(* Properties of CIPPath.                                                  *)
(***************************************************************************)
\* C39: the path buildSymbolicPath makes of a name of N bytes is word
\* aligned, 2 + N + (N mod 2) bytes long, and a request carrying it comes
\* back from toBuffer and fromBuffer with its path and data unchanged.
C39_BuiltPathWordAligned ==
  (profile = "path" /\ nsent \in {1, 2, 3})
    => /\ Len(wire[1]) % 2 = 0
       /\ Len(wire[1]) = 2 + Len(handled[1].bytes) + (Len(handled[1].bytes) % 2)
       /\ nsent = 3 => /\ log[1][1].ok
                       /\ log[1][1].path = wire[1]
                       /\ log[1][1].data = handled[1].data

\* C40: parsePath returns a segment list for every byte string and never
\* raises.
C40_ParsePathNeverRaises ==
  (profile = "path" /\ nsent = 4) => ~log[1][1].threw

====
